---- MODULE Spec2Model ----
(***************************************************************************)
(* A model of the resource and frame-synchronisation layer of the Vulkan   *)
(* renderer: the frame loop of sample/src/main.rs with its frame slots,    *)
(* the uniform padding helper, memory-type selection, the staged buffer    *)
(* upload and the swapchain's acquire/present bookkeeping.                 *)
(*                                                                         *)
(* The module holds several specifications over one set of variables.     *)
(* Each specification drives one group of variables and pins the others.   *)
(*   Spec       the frame loop (CPU steps, GPU completion, presentation)   *)
(*   SpecPad    pad_uniform_buffer_size on bounded inputs                  *)
(*   SpecMem    find_memory_type_index on bounded tables                   *)
(*   SpecUpload the staged upload new_vertex_buffer / new_index_buffer     *)
(*   SpecSwap   VSwapchain under arbitrary acquire / present sequences     *)
(***************************************************************************)
EXTENDS Integers, Sequences, FiniteSets, TLC

VARIABLES
    \* ---- frame loop (sample/src/main.rs) ----
    frame_count,    \* main.rs:207  let mut frame_count
    pc,             \* position of the CPU thread inside the closure body
    fence,          \* slot -> TRUE when the slot's fence is signaled
    gpu_queue,      \* submissions on the graphics queue not yet finished, in order
    cpu_inflight,   \* submissions whose fence the CPU has not yet observed signaled
    image_ind,      \* main.rs:224  the index returned by the last acquire
    img_state,      \* image -> "free" | "acquired" | "presented"
    min_align,      \* limits.min_uniform_buffer_offset_alignment of the device
    models,         \* scene.models: per model the index count of its mesh, NoMesh if missing
    model_i,        \* position of the for loop of Scene::draw
    cmd_buf,        \* slot -> commands recorded in the slot's command buffer
    last_write,     \* host writes of uniform memory done by the latest CPU step
    wrote_off,      \* byte offset of the padded scene write of the current frame
    last_err,       \* the call whose Err made expect panic, "none" while there is none
    \* ---- pad_uniform_buffer_size ----
    pad_which, pad_size, pad_align, pad_once, pad_twice, pad_pc,
    \* ---- find_memory_type_index ----
    mem_types, mem_bits, mem_flags, mem_which, mem_result, mem_pc,
    \* ---- staged upload ----
    up_kind, up_data, up_types, up_bits, up_pc, up_staging, up_dst, up_queue,
    up_cmd, up_dst_maps,
    \* ---- swapchain ----
    sw_caps,          \* surface capabilities: min_image_count, max_image_count
    sw_images,        \* VSwapchain::images
    sw_image_views,   \* VSwapchain::image_views
    sw_framebuffers,  \* VSwapchain::framebuffers
    sw_vframebuffers, \* VFramebuffers::framebuffers
    image_index,      \* VSwapchain::image_index
    sw_owned,         \* images acquired and not yet presented
    sw_log,           \* the calls made so far, oldest first
    sw_panicked,      \* TRUE once an index went out of range
    sw_presented,     \* p_image_indices of the last present, -1 before the first
    sw_requested,     \* SwapchainCreateInfoKHR::min_image_count the swapchain was created with
    \* ---- semaphores and fences of the frame loop ----
    sy_frame_count, \* main.rs:207  let mut frame_count
    sy_pc,          \* position of the CPU thread inside the closure body
    sy_fence,       \* slot -> TRUE when the slot's fence is signaled
    sy_sem,         \* the semaphores that are signaled
    sy_pending,     \* acquires whose semaphore the presentation engine has yet to signal
    sy_gpu,         \* batches submitted to the graphics queue, oldest first
    sy_presents,    \* present requests not yet taken up, oldest first
    sy_img,         \* image -> "free" | "acquired" | "queued" | "presenting"
    sy_image_ind,   \* main.rs:224  the index returned by the last acquire
    sy_hist,         \* frame -> what has happened to it on the GPU side so far
    \* ---- surface format and present mode ----
    sf_formats,        \* VPhysicalDeviceInformation::surface_formats
    sf_present_modes,  \* VPhysicalDeviceInformation::surface_present_modes
    sf_chosen_format,  \* what choose_surface_format returned during adapter selection
    sf_chosen_mode,    \* what choose_present_mode returned during adapter selection
    sf_create_info,    \* the SwapchainCreateInfoKHR VSwapchain::new creates the swapchain with
    sf_pc,              \* "start" | "selected" | "created"
    \* ---- queue-family selection ----
    qf_families,       \* VPhysicalDeviceInformation::queue_family_properties, with surface support
    qf_query_err,      \* family index whose surface-support query returns Err, NoQueryErr if none
    qf_result,         \* what get_queue_family_indices returned
    qf_pc,              \* "start" | "returned_ok" | "returned_err" | "panicked"
    \* ---- logical device and its queues ----
    dq_families,       \* the selected adapter's queue families, with surface support
    dq_indices,        \* VPhysicalDevice::queue_family_indices()
    dq_infos,          \* the Vec<DeviceQueueCreateInfo> passed to create_device
    dq_queues,         \* VDevice::queues
    dq_present_queue,  \* the queue the frame loop passed to queue_present
    dq_pc,              \* "start" | "device_created" | "device_failed" | "presented"
    \* ---- instance builder ----
    ib_builder,        \* the VInstanceBuilder value passed along the chain
    ib_last,           \* the last setter called on it, with its Vec<&str> argument
    ib_called,          \* the setters called so far on the chain
    \* ---- attachments written by the frames in flight ----
    dp_frame_count,    \* frame_count of main
    dp_pc,             \* "wait" | "acquire" | "submit" | "present" | "off"
    dp_fence,          \* slot -> the slot's fence is signaled
    dp_batches,        \* unfinished submissions of the graphics queue, in submission order
    dp_img,            \* swapchain image -> "free" | "acquired" | "queued"
    dp_image_ind,       \* image index the last acquire returned
    \* ---- objects a sequence of staged uploads leaves alive ----
    lo_pc,             \* "idle" | "staging" | "destination" | "copy" | "wait_idle" | "return" | "off"
    lo_ok,             \* uploads that returned Ok
    lo_err,            \* uploads that returned Err
    lo_buffers,        \* live Buffer handles
    lo_memory,         \* live DeviceMemory allocations
    lo_pools,          \* live command pools
    lo_cmds,           \* live command buffers
    lo_pool_drop,      \* dropping a VCommandPool destroys the pool
    lo_queue           \* copies submitted to the graphics queue the GPU has not run

frameVars == <<frame_count, pc, fence, gpu_queue, cpu_inflight, image_ind, img_state,
               min_align, models, model_i, cmd_buf, last_write, wrote_off, last_err>>
padVars == <<pad_which, pad_size, pad_align, pad_once, pad_twice, pad_pc>>
memVars == <<mem_types, mem_bits, mem_flags, mem_which, mem_result, mem_pc>>
upVars == <<up_kind, up_data, up_types, up_bits, up_pc, up_staging, up_dst, up_queue,
            up_cmd, up_dst_maps>>
swVars == <<sw_caps, sw_images, sw_image_views, sw_framebuffers, sw_vframebuffers,
            image_index, sw_owned, sw_log, sw_panicked, sw_presented,
            sw_requested>>
syVars == <<sy_frame_count, sy_pc, sy_fence, sy_sem, sy_pending, sy_gpu, sy_presents, sy_img, sy_image_ind, sy_hist>>
sfVars == <<sf_formats, sf_present_modes, sf_chosen_format, sf_chosen_mode, sf_create_info, sf_pc>>
qfVars == <<qf_families, qf_query_err, qf_result, qf_pc>>
dqVars == <<dq_families, dq_indices, dq_infos, dq_queues, dq_present_queue, dq_pc>>
ibVars == <<ib_builder, ib_last, ib_called>>
dpVars == <<dp_frame_count, dp_pc, dp_fence, dp_batches, dp_img, dp_image_ind>>
loVars == <<lo_pc, lo_ok, lo_err, lo_buffers, lo_memory, lo_pools, lo_cmds, lo_pool_drop, lo_queue>>
vars == <<frameVars, padVars, memVars, upVars, swVars, syVars, sfVars, qfVars, dqVars, ibVars, dpVars, loVars>>

(***************************************************************************)
(* Bounds of the model.                                                    *)
(***************************************************************************)
MaxFrames == 4
MaxImages == 4
MaxModels == 2

(***************************************************************************)
(* Program constants.                                                      *)
(***************************************************************************)
NUM_FRAMES == 3
SceneDataSize == 80
CameraDataSize == 128

Slots == 0 .. (NUM_FRAMES - 1)

\* scene.rs:53-55 and 71-76: get_mesh finds no mesh for the model
NoMesh == -1
\* mesh.indices.len() of the meshes a scene is run with: a triangle and a quad
MeshIndexCounts == {3, 6}
ModelValues == {NoMesh} \cup MeshIndexCounts
\* The swapchain's images; their number is the domain of img_state. Two images is
\* double buffering; MaxImages exceeds NUM_FRAMES, so that acquiring an image never
\* throttles the loop before the slot's fence does.
ImageCounts == {2, MaxImages}
Images == DOMAIN img_state

\* The value of VkPhysicalDeviceLimits::minUniformBufferOffsetAlignment the frame
\* loop is run with (the API requires a power of two); pad_uniform_buffer_size is
\* checked on every alignment on its own.
DeviceAlignments == {64}

RECURSIVE SeqsUpTo(_, _)
SeqsUpTo(S, n) ==
    IF n = 0 THEN {<<>>}
    ELSE LET shorter == SeqsUpTo(S, n - 1)
         IN  shorter \cup {Append(s, x) : s \in {t \in shorter : Len(t) = n - 1}, x \in S}

(***************************************************************************)
(* Bit operations on unsigned integers. BitAndNot(x, m) is x & !m: bit i   *)
(* of the result is set when it is set in x and clear in m. The inputs of  *)
(* the model stay far below 2^64, so no u64 addition wraps.                *)
(***************************************************************************)
RECURSIVE BitAndNot(_, _)
BitAndNot(x, m) ==
    IF x = 0 THEN 0
    ELSE (IF x % 2 = 1 /\ m % 2 = 0 THEN 1 ELSE 0) + 2 * BitAndNot(x \div 2, m \div 2)

\* A plausible slip in the rounding: adding the alignment instead of alignment - 1.
pad_uniform_buffer_size_off_by_one(size, min_uniform_alignment) ==
    IF min_uniform_alignment > 0
    THEN BitAndNot(size + min_uniform_alignment, min_uniform_alignment - 1)
    ELSE size

\* sample/src/utils.rs: pad_uniform_buffer_size(size, min_uniform_alignment)
pad_uniform_buffer_size(size, min_uniform_alignment) ==
    IF min_uniform_alignment > 0
    THEN BitAndNot(size + min_uniform_alignment - 1, min_uniform_alignment - 1)
    ELSE size

\* vulkan_renderer/src/utils.rs: pad_uniform_buffer_size(device, size); the device is
\* represented by the alignment limit it reports.
device_pad_uniform_buffer_size(device_align, size) ==
    IF device_align > 0
    THEN BitAndNot(size + device_align - 1, device_align - 1)
    ELSE size

(***************************************************************************)
(* The frame loop.                                                         *)
(***************************************************************************)
\* main.rs:213
FrameIndex(fc) == fc % NUM_FRAMES

frame_index == FrameIndex(frame_count)

\* main.rs:155-156: the size of the N-slot scene buffer
scene_buffer_size == NUM_FRAMES * device_pad_uniform_buffer_size(min_align, SceneDataSize)

\* main.rs:274: the byte offset of the padded write of a frame
PaddedWriteOffset(fi) == fi * device_pad_uniform_buffer_size(min_align, SceneDataSize)

\* scene.rs:106-112: the dynamic offset handed to cmd_bind_descriptor_sets
DynamicOffset(fi) == pad_uniform_buffer_size(SceneDataSize * fi, min_align)

\* A host write or a device read of a byte range [off, off + len) of a buffer.
Range(buf, off, len) == [buf |-> buf, off |-> off, len |-> len]

Overlap(a, b) ==
    /\ a.buf = b.buf
    /\ a.off < b.off + b.len
    /\ b.off < a.off + a.len

CameraBuffer(slot) == <<"camera", slot>>

\* main.rs:157-162: the one scene buffer all the slots share
SceneBuffer == <<"scene", 0>>

\* frame_data.rs:55-77: what the slot's descriptor set points at. Binding 0 is the
\* slot's camera buffer, binding 1 the scene buffer at the dynamic offset.
BoundRanges(slot, dyn_off) ==
    { Range(CameraBuffer(slot), 0, CameraDataSize),
      Range(SceneBuffer, dyn_off, SceneDataSize) }

\* The uniform ranges a recorded command buffer makes the GPU read.
CmdReads(slot, cmds) ==
    UNION { BoundRanges(slot, cmds[k].dyn_off) :
              k \in {j \in 1 .. Len(cmds) : cmds[j].op = "bind_descriptor_sets"} }

Submission(f, slot, img, cmds) ==
    [frame |-> f, slot |-> slot, img |-> img, reads |-> CmdReads(slot, cmds),
     cmds |-> cmds]

\* A wait whose timeout is taken for success.
WaitReturnsOk_ignoring_fence(slot) == TRUE

\* device.rs:265-268 with ash: Ok only when the fence is signaled within the timeout
WaitReturnsOk(slot) == fence[slot]

\* The slots' fences created unsignaled.
FrameInit_fences_unsignaled ==
    /\ frame_count = 0
    /\ pc = "wait"
    /\ fence = [s \in Slots |-> FALSE]
    /\ gpu_queue = <<>>
    /\ cpu_inflight = {}
    /\ image_ind = 0
    /\ img_state \in {[i \in 0 .. (n - 1) |-> "free"] : n \in ImageCounts}
    /\ min_align \in DeviceAlignments
    /\ models \in SeqsUpTo(ModelValues, MaxModels)
    /\ model_i = 1
    /\ cmd_buf = [s \in Slots |-> <<>>]
    /\ last_write = {}
    /\ wrote_off = -1
    /\ last_err = "none"

FrameInit ==
    /\ frame_count = 0
    /\ pc = "wait"
    /\ fence = [s \in Slots |-> TRUE]              \* frame_data.rs:36 VFence::new(device, true)
    /\ gpu_queue = <<>>
    /\ cpu_inflight = {}
    /\ image_ind = 0
    /\ img_state \in {[i \in 0 .. (n - 1) |-> "free"] : n \in ImageCounts}
    /\ min_align \in DeviceAlignments
    /\ models \in SeqsUpTo(ModelValues, MaxModels)
    /\ model_i = 1
    /\ cmd_buf = [s \in Slots |-> <<>>]
    /\ last_write = {}
    /\ wrote_off = -1
    /\ last_err = "none"

FrameOff ==
    /\ frame_count = 0
    /\ pc = "off"
    /\ fence = [s \in Slots |-> TRUE]
    /\ gpu_queue = <<>>
    /\ cpu_inflight = {}
    /\ image_ind = 0
    /\ img_state = <<>>
    /\ min_align = 0
    /\ models = <<>>
    /\ model_i = 1
    /\ cmd_buf = [s \in Slots |-> <<>>]
    /\ last_write = {}
    /\ wrote_off = -1
    /\ last_err = "none"

nonFrameVars == <<padVars, memVars, upVars, swVars, syVars, sfVars, qfVars, dqVars, ibVars, dpVars, loVars>>

\* main.rs:216-219: wait_for_fences returns Ok
WaitForFences ==
    /\ pc = "wait"
    /\ frame_count < MaxFrames
    /\ WaitReturnsOk(frame_index)
    /\ pc' = "reset"
    /\ cpu_inflight' = {s \in cpu_inflight : s.slot # frame_index}
    /\ last_write' = {}
    /\ UNCHANGED <<frame_count, fence, gpu_queue, image_ind, img_state, min_align,
                   models, model_i, cmd_buf, wrote_off>>
    /\ UNCHANGED last_err
    /\ UNCHANGED nonFrameVars

\* main.rs:216-219: the fence is still unsignaled after the timeout; expect panics
WaitTimeout ==
    /\ pc = "wait"
    /\ frame_count < MaxFrames
    /\ ~fence[frame_index]
    /\ pc' = "aborted"
    /\ last_err' = pc
    /\ last_write' = {}
    /\ UNCHANGED <<frame_count, fence, gpu_queue, cpu_inflight, image_ind, img_state,
                   min_align, models, model_i, cmd_buf, wrote_off>>
    /\ UNCHANGED nonFrameVars

\* The frame loop without its reset_fences call: the fence stays signaled.
ResetFences_skipped ==
    /\ pc = "reset"
    /\ pc' = "acquire"
    /\ last_write' = {}
    /\ UNCHANGED <<frame_count, fence, gpu_queue, cpu_inflight, image_ind, img_state,
                   min_align, models, model_i, cmd_buf, wrote_off>>
    /\ UNCHANGED last_err
    /\ UNCHANGED nonFrameVars

\* main.rs:220-222
ResetFences ==
    /\ pc = "reset"
    /\ fence' = [fence EXCEPT ![frame_index] = FALSE]
    /\ pc' = "acquire"
    /\ last_write' = {}
    /\ UNCHANGED <<frame_count, gpu_queue, cpu_inflight, image_ind, img_state, min_align,
                   models, model_i, cmd_buf, wrote_off>>
    /\ UNCHANGED last_err
    /\ UNCHANGED nonFrameVars

\* main.rs:224-230: the presentation engine hands out an image it owns
AcquireNextImage ==
    /\ pc = "acquire"
    /\ \E i \in Images :
        /\ img_state[i] = "free"
        /\ image_ind' = i
        /\ img_state' = [img_state EXCEPT ![i] = "acquired"]
    /\ pc' = "begin_command_buffer"
    /\ last_write' = {}
    /\ UNCHANGED <<frame_count, fence, gpu_queue, cpu_inflight, min_align, models,
                   model_i, cmd_buf, wrote_off>>
    /\ UNCHANGED last_err
    /\ UNCHANGED nonFrameVars

\* main.rs:236-237: beginning a command buffer resets what it held
BeginCommandBuffer ==
    /\ pc = "begin_command_buffer"
    /\ cmd_buf' = [cmd_buf EXCEPT ![frame_index] = <<>>]
    /\ wrote_off' = -1
    /\ pc' = "begin_render_pass"
    /\ last_write' = {}
    /\ UNCHANGED <<frame_count, fence, gpu_queue, cpu_inflight, image_ind, img_state,
                   min_align, models, model_i>>
    /\ UNCHANGED last_err
    /\ UNCHANGED nonFrameVars

\* A render pass begun on the framebuffer with the slot's number.
CmdBeginRenderPass_by_slot ==
    /\ pc = "begin_render_pass"
    /\ cmd_buf' = [cmd_buf EXCEPT ![frame_index] =
                      Append(@, [op |-> "begin_render_pass", framebuffer |-> frame_index])]
    /\ pc' = "bind_pipeline"
    /\ last_write' = {}
    /\ UNCHANGED <<frame_count, fence, gpu_queue, cpu_inflight, image_ind, img_state,
                   min_align, models, model_i, wrote_off>>
    /\ UNCHANGED last_err
    /\ UNCHANGED nonFrameVars

\* main.rs:252-259
CmdBeginRenderPass ==
    /\ pc = "begin_render_pass"
    /\ cmd_buf' = [cmd_buf EXCEPT ![frame_index] =
                      Append(@, [op |-> "begin_render_pass", framebuffer |-> image_ind])]
    /\ pc' = "bind_pipeline"
    /\ last_write' = {}
    /\ UNCHANGED <<frame_count, fence, gpu_queue, cpu_inflight, image_ind, img_state,
                   min_align, models, model_i, wrote_off>>
    /\ UNCHANGED last_err
    /\ UNCHANGED nonFrameVars

\* main.rs:261-266
CmdBindPipeline ==
    /\ pc = "bind_pipeline"
    /\ cmd_buf' = [cmd_buf EXCEPT ![frame_index] = Append(@, [op |-> "bind_pipeline"])]
    /\ pc' = "map_padded_memory"
    /\ last_write' = {}
    /\ UNCHANGED <<frame_count, fence, gpu_queue, cpu_inflight, image_ind, img_state,
                   min_align, models, model_i, wrote_off>>
    /\ UNCHANGED last_err
    /\ UNCHANGED nonFrameVars

\* VBuffer::map_padded_memory(device, data, offset): maps the buffer's memory, copies
\* the data at the byte offset and unmaps.
MapPaddedMemoryWrites(buf, len, offset) == {Range(buf, offset, len)}

\* main.rs:268-277
MapPaddedMemory ==
    /\ pc = "map_padded_memory"
    /\ wrote_off' = PaddedWriteOffset(frame_index)
    /\ last_write' = MapPaddedMemoryWrites(SceneBuffer, SceneDataSize, PaddedWriteOffset(frame_index))
    /\ model_i' = 1
    /\ pc' = "draw"
    /\ UNCHANGED <<frame_count, fence, gpu_queue, cpu_inflight, image_ind, img_state,
                   min_align, models, cmd_buf>>
    /\ UNCHANGED last_err
    /\ UNCHANGED nonFrameVars

\* VBuffer::map_memory as Scene::draw calls it: the data goes to the start of the
\* buffer's memory (buffer.rs:167-184 maps at offset 0 and copies to the mapped pointer).
MapMemoryWrites(buf, len) == {Range(buf, 0, len)}

\* A draw call with its two counts in each other's place.
draw_indexed_counts_swapped(index_count, instance_count) ==
    [op |-> "draw_indexed", index_count |-> instance_count, instance_count |-> index_count]

\* device.rs:221-231: cmd_draw_indexed(command_buffer, index_count, instance_count, 0, 0, 0)
draw_indexed(index_count, instance_count) ==
    [op |-> "draw_indexed", index_count |-> index_count, instance_count |-> instance_count]

\* scene.rs:78-132: the commands one model with a mesh records; the index count is
\* mesh.indices.len()
ModelCommands(fi, index_count) ==
    << [op |-> "bind_vertex_buffer"],
       [op |-> "bind_index_buffer"],
       [op |-> "bind_descriptor_sets", desc_set |-> fi, dyn_off |-> DynamicOffset(fi)],
       [op |-> "push_constants"],
       draw_indexed(index_count, 1) >>

\* scene.rs:70-132: one iteration of the loop over the models, mesh found
DrawModel ==
    /\ pc = "draw"
    /\ model_i <= Len(models)
    /\ models[model_i] # NoMesh
    /\ cmd_buf' = [cmd_buf EXCEPT ![frame_index] = @ \o ModelCommands(frame_index, models[model_i])]
    /\ last_write' = MapMemoryWrites(CameraBuffer(frame_index), CameraDataSize)
                        \cup MapMemoryWrites(SceneBuffer, SceneDataSize)
    /\ model_i' = model_i + 1
    /\ UNCHANGED <<frame_count, pc, fence, gpu_queue, cpu_inflight, image_ind, img_state,
                   min_align, models, wrote_off>>
    /\ UNCHANGED last_err
    /\ UNCHANGED nonFrameVars

\* A missing mesh that ends the loop over the models.
DrawSkipModel_breaks ==
    /\ pc = "draw"
    /\ model_i <= Len(models)
    /\ models[model_i] = NoMesh
    /\ model_i' = Len(models) + 1
    /\ last_write' = {}
    /\ UNCHANGED <<frame_count, pc, fence, gpu_queue, cpu_inflight, image_ind, img_state,
                   min_align, models, cmd_buf, wrote_off>>
    /\ UNCHANGED last_err
    /\ UNCHANGED nonFrameVars

\* scene.rs:71-76: the mesh is missing, the model is skipped and the loop goes on
DrawSkipModel ==
    /\ pc = "draw"
    /\ model_i <= Len(models)
    /\ models[model_i] = NoMesh
    /\ model_i' = model_i + 1
    /\ last_write' = {}
    /\ UNCHANGED <<frame_count, pc, fence, gpu_queue, cpu_inflight, image_ind, img_state,
                   min_align, models, cmd_buf, wrote_off>>
    /\ UNCHANGED last_err
    /\ UNCHANGED nonFrameVars

\* main.rs:279-281: Scene::draw returns, cmd_end_render_pass
CmdEndRenderPass ==
    /\ pc = "draw"
    /\ model_i > Len(models)
    /\ cmd_buf' = [cmd_buf EXCEPT ![frame_index] = Append(@, [op |-> "end_render_pass"])]
    /\ pc' = "end_command_buffer"
    /\ last_write' = {}
    /\ UNCHANGED <<frame_count, fence, gpu_queue, cpu_inflight, image_ind, img_state,
                   min_align, models, model_i, wrote_off>>
    /\ UNCHANGED last_err
    /\ UNCHANGED nonFrameVars

\* The closure body without its queue_submit call.
EndCommandBuffer_skips_submit ==
    /\ pc = "end_command_buffer"
    /\ pc' = "queue_present"
    /\ last_write' = {}
    /\ UNCHANGED <<frame_count, fence, gpu_queue, cpu_inflight, image_ind, img_state,
                   min_align, models, model_i, cmd_buf, wrote_off>>
    /\ UNCHANGED last_err
    /\ UNCHANGED nonFrameVars

\* main.rs:282-283
EndCommandBuffer ==
    /\ pc = "end_command_buffer"
    /\ pc' = "queue_submit"
    /\ last_write' = {}
    /\ UNCHANGED <<frame_count, fence, gpu_queue, cpu_inflight, image_ind, img_state,
                   min_align, models, model_i, cmd_buf, wrote_off>>
    /\ UNCHANGED last_err
    /\ UNCHANGED nonFrameVars

\* main.rs:285-302: the command buffer goes to the graphics queue with the slot's fence
QueueSubmit ==
    /\ pc = "queue_submit"
    /\ LET s == Submission(frame_count, frame_index, image_ind, cmd_buf[frame_index])
       IN  /\ gpu_queue' = Append(gpu_queue, s)
           /\ cpu_inflight' = cpu_inflight \cup {s}
    /\ pc' = "queue_present"
    /\ last_write' = {}
    /\ UNCHANGED <<frame_count, fence, image_ind, img_state, min_align, models, model_i,
                   cmd_buf, wrote_off>>
    /\ UNCHANGED last_err
    /\ UNCHANGED nonFrameVars

\* main.rs:304-332: queue_present, then the closure ends and frame_count advances
QueuePresent ==
    /\ pc = "queue_present"
    /\ img_state' = [img_state EXCEPT ![image_ind] = "presented"]
    /\ frame_count' = frame_count + 1
    /\ pc' = "wait"
    /\ last_write' = {}
    /\ UNCHANGED <<fence, gpu_queue, cpu_inflight, image_ind, min_align, models, model_i,
                   cmd_buf, wrote_off>>
    /\ UNCHANGED last_err
    /\ UNCHANGED nonFrameVars

FalliblePcs == {"wait", "reset", "acquire", "begin_command_buffer", "map_padded_memory",
                "draw", "end_command_buffer", "queue_submit", "queue_present"}

\* An Err that is only logged: the closure goes on from where it was.
VkCallFails_ignored ==
    /\ pc \in FalliblePcs
    /\ pc = "draw" => (model_i <= Len(models) /\ models[model_i] # NoMesh)
    /\ frame_count < MaxFrames
    /\ last_err' = pc
    /\ UNCHANGED <<frame_count, pc, fence, gpu_queue, cpu_inflight, image_ind, img_state,
                   min_align, models, model_i, cmd_buf, last_write, wrote_off>>
    /\ UNCHANGED nonFrameVars

\* scene.rs:78-83: the two bind commands an iteration of Scene::draw has recorded when
\* it reaches its first map_memory
ModelCommandsBeforeMap ==
    << [op |-> "bind_vertex_buffer"], [op |-> "bind_index_buffer"] >>

\* scene.rs:97-104: the map_memory calls of an iteration, either of which may fail
DrawMapCalls == {"camera_buffer", "scene_buffer"}

\* scene.rs:97-104: the host writes done when the named map_memory returns Err: none
\* when it is the camera buffer's, the camera data when it is the scene buffer's
WritesBeforeFailedMap(fi, failed) ==
    IF failed = "scene_buffer" THEN MapMemoryWrites(CameraBuffer(fi), CameraDataSize) ELSE {}

\* Any of the calls above that returns a Result may return Err; expect then panics
\* and the closure never runs again.  In Scene::draw the panic comes after the
\* iteration's bind commands were recorded (scene.rs:78-83), and the one of the scene
\* buffer's map_memory also after the camera buffer was written (scene.rs:97-104).
VkCallFails ==
    /\ pc \in FalliblePcs
    /\ pc = "draw" => (model_i <= Len(models) /\ models[model_i] # NoMesh)   \* scene.rs:97-104
    /\ frame_count < MaxFrames
    /\ pc' = "aborted"
    /\ last_err' = pc
    /\ IF pc = "draw"
       THEN \E failed \in DrawMapCalls :
               /\ cmd_buf' = [cmd_buf EXCEPT ![frame_index] = @ \o ModelCommandsBeforeMap]
               /\ last_write' = WritesBeforeFailedMap(frame_index, failed)
       ELSE /\ last_write' = {}
            /\ UNCHANGED cmd_buf
    /\ UNCHANGED <<frame_count, fence, gpu_queue, cpu_inflight, image_ind, img_state,
                   min_align, models, model_i, wrote_off>>
    /\ UNCHANGED nonFrameVars

\* The GPU finishes the oldest submission of the graphics queue and signals its fence.
GpuFinish ==
    /\ gpu_queue # <<>>
    /\ fence' = [fence EXCEPT ![Head(gpu_queue).slot] = TRUE]
    /\ gpu_queue' = Tail(gpu_queue)
    /\ UNCHANGED <<frame_count, pc, cpu_inflight, image_ind, img_state, min_align, models,
                   model_i, cmd_buf, last_write, wrote_off>>
    /\ UNCHANGED last_err
    /\ UNCHANGED nonFrameVars

\* The presentation engine is done with a presented image, once the rendering it was
\* queued behind has finished.
PresentationRelease ==
    /\ \E i \in Images :
        /\ img_state[i] = "presented"
        /\ \A k \in 1 .. Len(gpu_queue) : gpu_queue[k].img # i
        /\ img_state' = [img_state EXCEPT ![i] = "free"]
    /\ UNCHANGED <<frame_count, pc, fence, gpu_queue, cpu_inflight, image_ind, min_align,
                   models, model_i, cmd_buf, last_write, wrote_off>>
    /\ UNCHANGED last_err
    /\ UNCHANGED nonFrameVars

(***************************************************************************)
(* pad_uniform_buffer_size on bounded inputs.                              *)
(***************************************************************************)
MaxSize == 180
MaxAlign == 260

PadInit ==
    /\ pad_which \in {"sample", "renderer"}
    /\ pad_size \in 0 .. MaxSize
    /\ pad_align \in 0 .. MaxAlign
    /\ pad_once = -1
    /\ pad_twice = -1
    /\ pad_pc = "input"

PadOff ==
    /\ pad_which = "none"
    /\ pad_size = 0
    /\ pad_align = 0
    /\ pad_once = -1
    /\ pad_twice = -1
    /\ pad_pc = "off"

nonPadVars == <<frameVars, memVars, upVars, swVars, syVars, sfVars, qfVars, dqVars, ibVars, dpVars, loVars>>

\* The padding function of either crate, by name.
PadWith(which, size, alignment) ==
    IF which = "sample"
    THEN pad_uniform_buffer_size(size, alignment)
    ELSE device_pad_uniform_buffer_size(alignment, size)

\* The size is padded.
PadApply ==
    /\ pad_pc = "input"
    /\ pad_once' = PadWith(pad_which, pad_size, pad_align)
    /\ pad_pc' = "padded"
    /\ UNCHANGED <<pad_which, pad_size, pad_align, pad_twice>>
    /\ UNCHANGED nonPadVars

\* The padded size is padded again with the same alignment.
PadAgain ==
    /\ pad_pc = "padded"
    /\ pad_twice' = PadWith(pad_which, pad_once, pad_align)
    /\ pad_pc' = "repadded"
    /\ UNCHANGED <<pad_which, pad_size, pad_align, pad_once>>
    /\ UNCHANGED nonPadVars

(***************************************************************************)
(* find_memory_type_index on bounded memory-type tables.                   *)
(***************************************************************************)
MaxTypes == 3

\* Property flags of a memory type, as sets of flag names.
MemTypeFlagSets ==
    { {},
      {"DEVICE_LOCAL"},
      {"HOST_VISIBLE", "HOST_COHERENT"},
      {"HOST_VISIBLE", "HOST_COHERENT", "HOST_CACHED"},
      {"DEVICE_LOCAL", "HOST_VISIBLE", "HOST_COHERENT"} }

\* Flag sets callers ask for: buffer.rs:67, buffer.rs:74, image.rs, and none.
RequestedFlagSets ==
    { {}, {"DEVICE_LOCAL"}, {"HOST_VISIBLE", "HOST_COHERENT"}, {"DEVICE_LOCAL", "HOST_VISIBLE"} }

RECURSIVE TablesOfLen(_)
TablesOfLen(n) ==
    IF n = 0 THEN {<<>>}
    ELSE {Append(t, f) : t \in TablesOfLen(n - 1), f \in MemTypeFlagSets}

RECURSIVE Pow2(_)
Pow2(n) == IF n = 0 THEN 1 ELSE 2 * Pow2(n - 1)

\* (1 << ind) & memory_type_bits != 0
RECURSIVE BitIsSet(_, _)
BitIsSet(bits, ind) == IF ind = 0 THEN bits % 2 = 1 ELSE BitIsSet(bits \div 2, ind - 1)

Found(ind) == [ok |-> TRUE, index |-> ind]
Panic == [ok |-> FALSE, index |-> 0]

\* A scan that tests the property flags and forgets memory_type_bits.
RECURSIVE ScanIgnoringBits(_, _, _, _)
ScanIgnoringBits(memory_types, memory_type_bits, flags, ind) ==
    IF ind >= Len(memory_types) THEN Panic
    ELSE IF (memory_types[ind + 1] \cap flags) = flags THEN Found(ind)
    ELSE ScanIgnoringBits(memory_types, memory_type_bits, flags, ind + 1)

VBuffer_find_memory_type_index_ignoring_bits(memory_type_bits, memory_types, flags) ==
    ScanIgnoringBits(memory_types, memory_type_bits, flags, 0)

\* buffer.rs:212-220: the for loop, from index ind on, and the panic after it
RECURSIVE VBuffer_scan(_, _, _, _)
VBuffer_scan(memory_types, memory_type_bits, flags, ind) ==
    IF ind >= Len(memory_types) THEN Panic
    ELSE IF (memory_types[ind + 1] \cap flags) = flags /\ BitIsSet(memory_type_bits, ind)
         THEN Found(ind)
         ELSE VBuffer_scan(memory_types, memory_type_bits, flags, ind + 1)

\* buffer.rs:207-221
VBuffer_find_memory_type_index(memory_type_bits, memory_types, flags) ==
    VBuffer_scan(memory_types, memory_type_bits, flags, 0)

\* image.rs:115-123
RECURSIVE VImage_scan(_, _, _, _)
VImage_scan(memory_types, memory_type_bits, flags, ind) ==
    IF ind >= Len(memory_types) THEN Panic
    ELSE IF (memory_types[ind + 1] \cap flags) = flags /\ BitIsSet(memory_type_bits, ind)
         THEN Found(ind)
         ELSE VImage_scan(memory_types, memory_type_bits, flags, ind + 1)

\* image.rs:110-124
VImage_find_memory_type_index(memory_type_bits, memory_types, flags) ==
    VImage_scan(memory_types, memory_type_bits, flags, 0)

MemInit ==
    /\ mem_types \in TablesOfLen(MaxTypes)
    /\ mem_bits \in 0 .. (Pow2(MaxTypes) - 1)
    /\ mem_flags \in RequestedFlagSets
    /\ mem_which \in {"buffer", "image"}
    /\ mem_result = Panic
    /\ mem_pc = "input"

nonMemVars == <<frameVars, padVars, upVars, swVars, syVars, sfVars, qfVars, dqVars, ibVars, dpVars, loVars>>

\* VBuffer::create_memory calls the buffer version (buffer.rs:161-162).
BufferFindMemoryType ==
    /\ mem_pc = "input"
    /\ mem_which = "buffer"
    /\ mem_result' = VBuffer_find_memory_type_index(mem_bits, mem_types, mem_flags)
    /\ mem_pc' = "done"
    /\ UNCHANGED <<mem_types, mem_bits, mem_flags, mem_which>>
    /\ UNCHANGED nonMemVars

\* VImage's memory allocation calls the image version.
ImageFindMemoryType ==
    /\ mem_pc = "input"
    /\ mem_which = "image"
    /\ mem_result' = VImage_find_memory_type_index(mem_bits, mem_types, mem_flags)
    /\ mem_pc' = "done"
    /\ UNCHANGED <<mem_types, mem_bits, mem_flags, mem_which>>
    /\ UNCHANGED nonMemVars

(***************************************************************************)
(* The staged upload: VBuffer::new_vertex_buffer / new_index_buffer.       *)
(***************************************************************************)
MaxLen == 2
MaxUploadTypes == 2

SizeOfVertex == 48
SizeOfIndex == 4

\* size_of::<T>() of the slice the upload is given
SizeOfElem(kind) == IF kind = "vertex" THEN SizeOfVertex ELSE SizeOfIndex

\* The bytes of a slice: byte k of element e is written <<e, k>>.
RECURSIVE BytesOf(_, _)
BytesOf(data, elem_size) ==
    IF data = <<>> THEN <<>>
    ELSE [k \in 1 .. elem_size |-> <<Head(data), k>>] \o BytesOf(Tail(data), elem_size)

\* A byte of memory nothing has written yet.
Uninit == <<0, 0>>

NoBuffer == [created |-> FALSE, size |-> 0, mem_type |-> 0, bytes |-> <<>>, maps |-> 0]

\* buffer.rs:152: the size create_buffer asks for
BufferSize(data, elem_size) == Len(data) * elem_size

\* buffer.rs:180: copy_nonoverlapping of data.len() elements to the mapped pointer
MapMemory(bytes, data, elem_size) ==
    [k \in 1 .. Len(bytes) |->
        IF k <= Len(data) * elem_size THEN BytesOf(data, elem_size)[k] ELSE bytes[k]]

\* buffer.rs:48-60: buffer, memory of a type with the flags, bind; nothing is mapped
new_unmapped(data, elem_size, memory_types, memory_type_bits, flags) ==
    LET t == VBuffer_find_memory_type_index(memory_type_bits, memory_types, flags)
    IN  [panic |-> ~t.ok,
         buffer |-> [created |-> TRUE,
                     size |-> BufferSize(data, elem_size),
                     mem_type |-> t.index,
                     bytes |-> [k \in 1 .. BufferSize(data, elem_size) |-> Uninit],
                     maps |-> 0]]

\* buffer.rs:29-43: as new_unmapped, then map_memory copies the data in
new_mapped(data, elem_size, memory_types, memory_type_bits, flags) ==
    LET u == new_unmapped(data, elem_size, memory_types, memory_type_bits, flags)
    IN  [panic |-> u.panic,
         buffer |-> [u.buffer EXCEPT !.bytes = MapMemory(@, data, elem_size),
                                     !.maps = @ + 1]]

\* buffer.rs:67 and 92: the memory flags of the staging buffer
StagingMemoryFlags == {"HOST_COHERENT", "HOST_VISIBLE"}

\* The destination asked for with the staging buffer's flags.
DstMemoryFlags_as_staging == {"HOST_COHERENT", "HOST_VISIBLE"}

\* buffer.rs:74 and 99: the memory flags of the destination buffer
DstMemoryFlags == {"DEVICE_LOCAL"}

\* A copy region that forgets size_of::<T>().
CopyRegionSize_in_elements(data, elem_size) == Len(data)

\* buffer.rs:126: BufferCopy::builder().size(..), source and destination offset 0
CopyRegionSize(data, elem_size) == Len(data) * elem_size

\* vkCmdCopyBuffer as the GPU executes it
ExecuteCopy(src_bytes, dst_bytes, size) ==
    [k \in 1 .. Len(dst_bytes) |->
        IF k <= size /\ k <= Len(src_bytes) THEN src_bytes[k] ELSE dst_bytes[k]]

UpInit ==
    /\ up_kind \in {"vertex", "index"}
    /\ up_data \in SeqsUpTo({1, 2}, MaxLen) \ {<<>>}     \* vkCreateBuffer needs size > 0
    /\ up_types \in TablesOfLen(MaxUploadTypes)
    /\ up_bits \in 0 .. (Pow2(MaxUploadTypes) - 1)
    /\ up_pc = "start"
    /\ up_staging = NoBuffer
    /\ up_dst = NoBuffer
    /\ up_queue = <<>>
    /\ up_cmd = <<>>
    /\ up_dst_maps = 0

nonUpVars == <<frameVars, padVars, memVars, swVars, syVars, sfVars, qfVars, dqVars, ibVars, dpVars, loVars>>

\* buffer.rs:63-68 (88-93): the staging buffer
CreateStagingBuffer ==
    /\ up_pc = "start"
    /\ LET r == new_mapped(up_data, SizeOfElem(up_kind), up_types, up_bits,
                           StagingMemoryFlags)
       IN  IF r.panic
           THEN /\ up_pc' = "panicked"
                /\ UNCHANGED up_staging
           ELSE /\ up_pc' = "staging_created"
                /\ up_staging' = r.buffer
    /\ UNCHANGED <<up_kind, up_data, up_types, up_bits, up_dst, up_queue, up_cmd,
                   up_dst_maps>>
    /\ UNCHANGED nonUpVars

\* buffer.rs:70-75 (95-100): the destination buffer
CreateDestinationBuffer ==
    /\ up_pc = "staging_created"
    /\ LET r == new_unmapped(up_data, SizeOfElem(up_kind), up_types, up_bits,
                             DstMemoryFlags)
       IN  IF r.panic
           THEN /\ up_pc' = "panicked"
                /\ UNCHANGED <<up_dst, up_dst_maps>>
           ELSE /\ up_pc' = "dst_created"
                /\ up_dst' = r.buffer
                /\ up_dst_maps' = up_dst_maps + r.buffer.maps
    /\ UNCHANGED <<up_kind, up_data, up_types, up_bits, up_staging, up_queue, up_cmd>>
    /\ UNCHANGED nonUpVars

\* buffer.rs:113-131: transient pool, command buffer, begin, cmd_copy_buffer, end
RecordCopy ==
    /\ up_pc = "dst_created"
    /\ up_cmd' = <<[op |-> "copy_buffer", src |-> "staging", dst |-> "dst",
                    size |-> CopyRegionSize(up_data, SizeOfElem(up_kind))]>>
    /\ up_pc' = "recorded"
    /\ UNCHANGED <<up_kind, up_data, up_types, up_bits, up_staging, up_dst, up_queue,
                   up_dst_maps>>
    /\ UNCHANGED nonUpVars

\* buffer.rs:133-139: queue_submit with a null fence
SubmitCopy ==
    /\ up_pc = "recorded"
    /\ up_queue' = Append(up_queue, up_cmd)
    /\ up_pc' = "submitted"
    /\ UNCHANGED <<up_kind, up_data, up_types, up_bits, up_staging, up_dst, up_cmd,
                   up_dst_maps>>
    /\ UNCHANGED nonUpVars

\* The GPU executes the oldest submitted command buffer.
GpuExecuteCopy ==
    /\ up_queue # <<>>
    /\ up_dst' = [up_dst EXCEPT !.bytes =
                     ExecuteCopy(up_staging.bytes, @, Head(up_queue)[1].size)]
    /\ up_queue' = Tail(up_queue)
    /\ UNCHANGED <<up_kind, up_data, up_types, up_bits, up_pc, up_staging, up_cmd,
                   up_dst_maps>>
    /\ UNCHANGED nonUpVars

\* buffer.rs:140-145 and 84: queue_wait_idle returns once the queue is idle, then Ok
QueueWaitIdle ==
    /\ up_pc = "submitted"
    /\ up_queue = <<>>
    /\ up_pc' = "returned_ok"
    /\ UNCHANGED <<up_kind, up_data, up_types, up_bits, up_staging, up_dst, up_queue,
                   up_cmd, up_dst_maps>>
    /\ UNCHANGED nonUpVars

\* Any Vulkan call of the upload returns an error, which ? hands to the caller.
UploadCallFails ==
    /\ up_pc \in {"start", "staging_created", "dst_created", "recorded", "submitted"}
    /\ up_pc' = "returned_err"
    /\ UNCHANGED <<up_kind, up_data, up_types, up_bits, up_staging, up_dst, up_queue,
                   up_cmd, up_dst_maps>>
    /\ UNCHANGED nonUpVars

(***************************************************************************)
(* VSwapchain under arbitrary sequences of acquire, present and getters.   *)
(***************************************************************************)
MaxMinImages == 2
MaxSwapCalls == 4

\* An image count that is always one more than the minimum.
DesiredImageCount_unclamped(min_image_count, max_image_count) == min_image_count + 1

\* swapchain.rs:200-205: the image count the swapchain asks for
DesiredImageCount(min_image_count, max_image_count) ==
    IF max_image_count > 0 /\ min_image_count + 1 > max_image_count
    THEN max_image_count
    ELSE min_image_count + 1

\* swapchain.rs:39-40: the numbers of images get_swapchain_images may return for a
\* swapchain created with min_image_count = requested: at least the requested
\* number and at most the surface's maximum
CreatedImageCounts(caps, requested) ==
    {n \in 1 .. (MaxMinImages + 2) :
        /\ n >= requested
        /\ caps.max_image_count = 0 \/ n <= caps.max_image_count}

\* swapchain.rs:144-160: one view per image
create_image_views(images) == [k \in 1 .. Len(images) |-> <<"view", images[k]>>]

\* A swapchain that builds a framebuffer for its first image view only.
create_framebuffers_first_only(image_views) ==
    IF image_views = <<>> THEN <<>> ELSE << <<"framebuffer", image_views[1], "depth">> >>

\* swapchain.rs:162-190: one framebuffer per image view, each with the depth view
create_framebuffers(image_views) ==
    [k \in 1 .. Len(image_views) |-> <<"framebuffer", image_views[k], "depth">>]

\* framebuffer.rs:11-32: VFramebuffers::new, one framebuffer per image view
VFramebuffers_new(image_views) ==
    [k \in 1 .. Len(image_views) |-> <<"framebuffer", image_views[k]>>]

\* swapchain.rs:88-98 and framebuffer.rs:59-61: indexing a Vec panics out of range
InRange(vec, index) == index >= 0 /\ index < Len(vec)

\* swapchain.rs:31-78: the swapchain as VSwapchain::new leaves it. The driver creates
\* at least the number of images asked for.
SwInit ==
    /\ sw_caps \in { [min_image_count |-> mn, max_image_count |-> mx] :
                       mn \in 1 .. MaxMinImages,
                       mx \in {0} \cup 1 .. (MaxMinImages + 1) }
    /\ sw_caps.max_image_count = 0 \/ sw_caps.max_image_count >= sw_caps.min_image_count
    /\ sw_requested = DesiredImageCount(sw_caps.min_image_count, sw_caps.max_image_count)
    /\ LET created == CreatedImageCounts(sw_caps, sw_requested)
       IN  IF created = {}
           THEN sw_images = <<>>                   \* create_swapchain fails
           ELSE \E n \in created : sw_images = [k \in 1 .. n |-> <<"image", k>>]
    /\ sw_image_views = create_image_views(sw_images)
    /\ sw_framebuffers = create_framebuffers(sw_image_views)
    /\ sw_vframebuffers = VFramebuffers_new(sw_image_views)
    /\ image_index = 0
    /\ sw_owned = {}
    /\ sw_log = <<>>
    /\ sw_panicked = FALSE
    /\ sw_presented = -1

nonSwVars == <<frameVars, padVars, memVars, upVars, syVars, sfVars, qfVars, dqVars, ibVars, dpVars, loVars>>

SwCanCall == ~sw_panicked /\ Len(sw_log) < MaxSwapCalls

\* swapchain.rs:116-129: the driver returns the index of an image the application
\* does not hold; the field takes it
SwAcquireNextImage ==
    /\ SwCanCall
    /\ \E i \in 0 .. (Len(sw_images) - 1) :
          /\ i \notin sw_owned
          /\ image_index' = i
          /\ sw_owned' = sw_owned \cup {i}
    /\ sw_log' = Append(sw_log, "acquire")
    /\ UNCHANGED <<sw_caps, sw_images, sw_image_views, sw_framebuffers, sw_vframebuffers,
                   sw_panicked>>
    /\ UNCHANGED <<sw_presented, sw_requested>>
    /\ UNCHANGED nonSwVars

\* A failed acquire that stores index 0 before it returns the error.
SwAcquireFails_storing_zero ==
    /\ SwCanCall
    /\ image_index' = 0
    /\ sw_log' = Append(sw_log, "acquire_err")
    /\ UNCHANGED <<sw_caps, sw_images, sw_image_views, sw_framebuffers, sw_vframebuffers,
                   sw_owned, sw_panicked>>
    /\ UNCHANGED <<sw_presented, sw_requested>>
    /\ UNCHANGED nonSwVars

\* swapchain.rs:123-126: the driver's acquire returns an error and ? returns early
SwAcquireFails ==
    /\ SwCanCall
    /\ sw_log' = Append(sw_log, "acquire_err")
    /\ UNCHANGED <<sw_caps, sw_images, sw_image_views, sw_framebuffers, sw_vframebuffers,
                   image_index, sw_owned, sw_panicked>>
    /\ UNCHANGED <<sw_presented, sw_requested>>
    /\ UNCHANGED nonSwVars

\* swapchain.rs:131-142: presents the image the field names
SwQueuePresent ==
    /\ SwCanCall
    /\ sw_presented' = image_index                    \* swapchain.rs:133
    /\ sw_owned' = sw_owned \ {image_index}
    /\ sw_log' = Append(sw_log, "present")
    /\ UNCHANGED <<sw_caps, sw_images, sw_image_views, sw_framebuffers, sw_vframebuffers,
                   image_index, sw_panicked>>
    /\ UNCHANGED sw_requested
    /\ UNCHANGED nonSwVars

\* swapchain.rs:88-98 and framebuffer.rs:55-66: get_current_image,
\* get_current_image_view, get_current_framebuffer and framebuffers[image_index]
SwGetCurrent ==
    /\ SwCanCall
    /\ sw_panicked' = ~( /\ InRange(sw_images, image_index)
                         /\ InRange(sw_image_views, image_index)
                         /\ InRange(sw_framebuffers, image_index)
                         /\ InRange(sw_vframebuffers, image_index) )
    /\ sw_log' = Append(sw_log, "get")
    /\ UNCHANGED <<sw_caps, sw_images, sw_image_views, sw_framebuffers, sw_vframebuffers,
                   image_index, sw_owned>>
    /\ UNCHANGED <<sw_presented, sw_requested>>
    /\ UNCHANGED nonSwVars

(***************************************************************************)
(* Pinned values of the groups a specification does not drive.             *)
(***************************************************************************)
MemOff ==
    /\ mem_types = <<>>
    /\ mem_bits = 0
    /\ mem_flags = {}
    /\ mem_which = "none"
    /\ mem_result = Panic
    /\ mem_pc = "off"

UpOff ==
    /\ up_kind = "none"
    /\ up_data = <<>>
    /\ up_types = <<>>
    /\ up_bits = 0
    /\ up_pc = "off"
    /\ up_staging = NoBuffer
    /\ up_dst = NoBuffer
    /\ up_queue = <<>>
    /\ up_cmd = <<>>
    /\ up_dst_maps = 0

SwOff ==
    /\ sw_caps = [min_image_count |-> 0, max_image_count |-> 0]
    /\ sw_images = <<>>
    /\ sw_image_views = <<>>
    /\ sw_framebuffers = <<>>
    /\ sw_vframebuffers = <<>>
    /\ image_index = 0
    /\ sw_owned = {}
    /\ sw_log = <<>>
    /\ sw_panicked = FALSE
    /\ sw_presented = -1
    /\ sw_requested = 0

(***************************************************************************)
(* The specifications.                                                     *)
(***************************************************************************)

(***************************************************************************)
(* The frame loop as the GPU and the presentation engine see it: what each *)
(* acquire, submit and present waits on and signals.                       *)
(***************************************************************************)
MaxSyncFrames == 4
MaxSyncImages == 4

SyFrames == 0 .. (MaxSyncFrames - 1)
SyImageCounts == {2, MaxSyncImages}
SyImages == DOMAIN sy_img
sy_frame_index == FrameIndex(sy_frame_count)

\* frame_data.rs:37-38: the two semaphores of a slot
PresentSemaphore(slot) == <<"present_semaphore", slot>>
RenderSemaphore(slot) == <<"render_semaphore", slot>>

\* main.rs:227: Some(frame_data.present_semaphore.get())
AcquireSignalSemaphore(slot) == PresentSemaphore(slot)

\* A submit that waits on no semaphore.
SubmitWaitSemaphores_none(slot) == {}

\* main.rs:286
SubmitWaitSemaphores(slot) == {PresentSemaphore(slot)}

\* main.rs:287
SubmitSignalSemaphores(slot) == {RenderSemaphore(slot)}

\* main.rs:288
SubmitWaitStage == "COLOR_ATTACHMENT_OUTPUT"

\* main.rs:306
PresentWaitSemaphores(slot) == {RenderSemaphore(slot)}

\* device.rs:233-249
create_queue_submit_info(command_buffers, wait_semaphores, dst_semaphores, pipeline_stage_flags) ==
    [command_buffers |-> command_buffers,
     wait_semaphores |-> wait_semaphores,
     signal_semaphores |-> dst_semaphores,
     wait_dst_stage_mask |-> pipeline_stage_flags]

NoHistory ==
    [acquire_signaled |-> FALSE, color_started |-> FALSE, exec_done |-> FALSE,
     present_started |-> FALSE]

SyInit ==
    /\ sy_frame_count = 0
    /\ sy_pc = "wait"
    /\ sy_fence = [s \in Slots |-> TRUE]           \* frame_data.rs:36 VFence::new(device, true)
    /\ sy_sem = {}
    /\ sy_pending = {}
    /\ sy_gpu = <<>>
    /\ sy_presents = <<>>
    /\ sy_img \in {[i \in 0 .. (n - 1) |-> "free"] : n \in SyImageCounts}
    /\ sy_image_ind = 0
    /\ sy_hist = [f \in SyFrames |-> NoHistory]

SyOff ==
    /\ sy_frame_count = 0
    /\ sy_pc = "off"
    /\ sy_fence = [s \in Slots |-> TRUE]
    /\ sy_sem = {}
    /\ sy_pending = {}
    /\ sy_gpu = <<>>
    /\ sy_presents = <<>>
    /\ sy_img = <<>>
    /\ sy_image_ind = 0
    /\ sy_hist = <<>>

nonSyVars == <<frameVars, padVars, memVars, upVars, swVars, sfVars, qfVars, dqVars, ibVars, dpVars, loVars>>

\* main.rs:216-222: wait_for_fences returns Ok, then reset_fences
SyWaitAndResetFences ==
    /\ sy_pc = "wait"
    /\ sy_frame_count < MaxSyncFrames
    /\ sy_fence[sy_frame_index]
    /\ sy_fence' = [sy_fence EXCEPT ![sy_frame_index] = FALSE]
    /\ sy_pc' = "acquire"
    /\ UNCHANGED <<sy_frame_count, sy_sem, sy_pending, sy_gpu, sy_presents, sy_img,
                   sy_image_ind, sy_hist>>
    /\ UNCHANGED nonSyVars

\* main.rs:224-230: the acquire returns an index at once; the semaphore it was given
\* is signaled when the presentation engine lets go of the image
SyAcquireNextImage ==
    /\ sy_pc = "acquire"
    /\ \E i \in SyImages :
        /\ sy_img[i] = "free"
        /\ sy_image_ind' = i
        /\ sy_img' = [sy_img EXCEPT ![i] = "acquired"]
    /\ sy_pending' = sy_pending \cup
            {[semaphore |-> AcquireSignalSemaphore(sy_frame_index), frame |-> sy_frame_count]}
    /\ sy_pc' = "submit"
    /\ UNCHANGED <<sy_frame_count, sy_fence, sy_sem, sy_gpu, sy_presents, sy_hist>>
    /\ UNCHANGED nonSyVars

\* main.rs:236-302: the command buffer is recorded and submitted with the slot's fence
SyQueueSubmit ==
    /\ sy_pc = "submit"
    /\ LET submit_info ==
               create_queue_submit_info(<<sy_frame_index>>,
                                        SubmitWaitSemaphores(sy_frame_index),
                                        SubmitSignalSemaphores(sy_frame_index),
                                        SubmitWaitStage)
       IN  sy_gpu' = Append(sy_gpu, [frame |-> sy_frame_count, info |-> submit_info,
                                     fence |-> sy_frame_index, started |-> FALSE])
    /\ sy_pc' = "present"
    /\ UNCHANGED <<sy_frame_count, sy_fence, sy_sem, sy_pending, sy_presents, sy_img,
                   sy_image_ind, sy_hist>>
    /\ UNCHANGED nonSyVars

\* main.rs:304-332: queue_present with the image of this frame, then frame_count += 1
SyQueuePresent ==
    /\ sy_pc = "present"
    /\ sy_presents' = Append(sy_presents,
                             [frame |-> sy_frame_count, image |-> sy_image_ind,
                              wait_semaphores |-> PresentWaitSemaphores(sy_frame_index)])
    /\ sy_img' = [sy_img EXCEPT ![sy_image_ind] = "queued"]
    /\ sy_frame_count' = sy_frame_count + 1
    /\ sy_pc' = "wait"
    /\ UNCHANGED <<sy_fence, sy_sem, sy_pending, sy_gpu, sy_image_ind, sy_hist>>
    /\ UNCHANGED nonSyVars

\* The presentation engine lets go of an acquired image: the acquire's semaphore is
\* signaled.
SyImageReady ==
    /\ \E p \in sy_pending :
        /\ sy_sem' = sy_sem \cup {p.semaphore}
        /\ sy_pending' = sy_pending \ {p}
        /\ sy_hist' = [sy_hist EXCEPT ![p.frame].acquire_signaled = TRUE]
    /\ UNCHANGED <<sy_frame_count, sy_pc, sy_fence, sy_gpu, sy_presents, sy_img,
                   sy_image_ind>>
    /\ UNCHANGED nonSyVars

\* The oldest batch reaches the colour-attachment-output stage: a batch whose wait
\* stage is that stage goes on only with its wait semaphores signaled, and the wait
\* unsignals them.
SyColorOutputStart ==
    /\ sy_gpu # <<>>
    /\ ~Head(sy_gpu).started
    /\ LET info == Head(sy_gpu).info
       IN  /\ info.wait_dst_stage_mask = "COLOR_ATTACHMENT_OUTPUT" =>
                  info.wait_semaphores \subseteq sy_sem
           /\ sy_sem' = sy_sem \ info.wait_semaphores
    /\ sy_gpu' = <<[Head(sy_gpu) EXCEPT !.started = TRUE]>> \o Tail(sy_gpu)
    /\ sy_hist' = [sy_hist EXCEPT ![Head(sy_gpu).frame].color_started = TRUE]
    /\ UNCHANGED <<sy_frame_count, sy_pc, sy_fence, sy_pending, sy_presents, sy_img,
                   sy_image_ind>>
    /\ UNCHANGED nonSyVars

\* The oldest batch completes: its signal semaphores and its fence are signaled.
SyExecutionFinish ==
    /\ sy_gpu # <<>>
    /\ Head(sy_gpu).started
    /\ sy_sem' = sy_sem \cup Head(sy_gpu).info.signal_semaphores
    /\ sy_fence' = [sy_fence EXCEPT ![Head(sy_gpu).fence] = TRUE]
    /\ sy_gpu' = Tail(sy_gpu)
    /\ sy_hist' = [sy_hist EXCEPT ![Head(sy_gpu).frame].exec_done = TRUE]
    /\ UNCHANGED <<sy_frame_count, sy_pc, sy_pending, sy_presents, sy_img, sy_image_ind>>
    /\ UNCHANGED nonSyVars

\* The presentation engine takes up the oldest present request once its wait
\* semaphores are signaled; the wait unsignals them.
SyPresentationStart ==
    /\ sy_presents # <<>>
    /\ Head(sy_presents).wait_semaphores \subseteq sy_sem
    /\ sy_sem' = sy_sem \ Head(sy_presents).wait_semaphores
    /\ sy_img' = [sy_img EXCEPT ![Head(sy_presents).image] = "presenting"]
    /\ sy_presents' = Tail(sy_presents)
    /\ sy_hist' = [sy_hist EXCEPT ![Head(sy_presents).frame].present_started = TRUE]
    /\ UNCHANGED <<sy_frame_count, sy_pc, sy_fence, sy_pending, sy_gpu, sy_image_ind>>
    /\ UNCHANGED nonSyVars

\* The presentation engine is done with an image.
SyPresentationDone ==
    /\ \E i \in SyImages :
        /\ sy_img[i] = "presenting"
        /\ sy_img' = [sy_img EXCEPT ![i] = "free"]
    /\ UNCHANGED <<sy_frame_count, sy_pc, sy_fence, sy_sem, sy_pending, sy_gpu,
                   sy_presents, sy_image_ind, sy_hist>>
    /\ UNCHANGED nonSyVars

(***************************************************************************)
(* Surface format and present mode: adapter selection, then swapchain      *)
(* creation.                                                               *)
(***************************************************************************)
MaxFormats == 2

SurfaceFormat(format, color_space) == [format |-> format, color_space |-> color_space]

\* The SurfaceFormatKHR values a surface is taken to list.
SurfaceFormats ==
    { SurfaceFormat("B8G8R8A8_SRGB", "SRGB_NONLINEAR"),
      SurfaceFormat("B8G8R8A8_UNORM", "SRGB_NONLINEAR"),
      SurfaceFormat("R8G8B8A8_SRGB", "SRGB_NONLINEAR") }

PresentModes == {"FIFO", "MAILBOX", "IMMEDIATE"}

NoDuplicates(s) == \A i, j \in 1 .. Len(s) : i # j => s[i] # s[j]

\* physical_device.rs:86-89: Iterator::find, as the position of the first listed
\* format that is B8G8R8A8_SRGB with SRGB_NONLINEAR, 0 if there is none
RECURSIVE FindOptimalFormat(_, _)
FindOptimalFormat(surface_formats, from) ==
    IF from > Len(surface_formats) THEN 0
    ELSE IF /\ surface_formats[from].format = "B8G8R8A8_SRGB"
            /\ surface_formats[from].color_space = "SRGB_NONLINEAR"
         THEN from
    ELSE FindOptimalFormat(surface_formats, from + 1)

\* physical_device.rs:85-94
choose_surface_format(surface_formats) ==
    LET found == FindOptimalFormat(surface_formats, 1)
    IN  IF found # 0 THEN surface_formats[found] ELSE surface_formats[1]

\* physical_device.rs:97-100: Iterator::find, as the position of the first listed
\* present mode that is MAILBOX, 0 if there is none
RECURSIVE FindMailbox(_, _)
FindMailbox(surface_present_modes, from) ==
    IF from > Len(surface_present_modes) THEN 0
    ELSE IF surface_present_modes[from] = "MAILBOX" THEN from
    ELSE FindMailbox(surface_present_modes, from + 1)

\* physical_device.rs:96-107
choose_present_mode(surface_present_modes) ==
    LET found == FindMailbox(surface_present_modes, 1)
    IN  IF found # 0 THEN surface_present_modes[found] ELSE "FIFO"

\* swapchain.rs:220-234: the fields of the create info that new passes in
swapchain_create_info(image_format, image_color_space, present_mode) ==
    [image_format |-> image_format, image_color_space |-> image_color_space,
     present_mode |-> present_mode]

NoCreateInfo == swapchain_create_info("none", "none", "none")

\* A surface lists at least one format, and FIFO among its present modes.
SfInit ==
    /\ sf_formats \in SeqsUpTo(SurfaceFormats, MaxFormats) \ {<<>>}
    /\ NoDuplicates(sf_formats)
    /\ sf_present_modes \in SeqsUpTo(PresentModes, Cardinality(PresentModes))
    /\ NoDuplicates(sf_present_modes)
    /\ \E k \in 1 .. Len(sf_present_modes) : sf_present_modes[k] = "FIFO"
    /\ sf_chosen_format = SurfaceFormat("none", "none")
    /\ sf_chosen_mode = "none"
    /\ sf_create_info = NoCreateInfo
    /\ sf_pc = "start"

SfOff ==
    /\ sf_formats = <<>>
    /\ sf_present_modes = <<>>
    /\ sf_chosen_format = SurfaceFormat("none", "none")
    /\ sf_chosen_mode = "none"
    /\ sf_create_info = NoCreateInfo
    /\ sf_pc = "off"

nonSfVars == <<frameVars, padVars, memVars, upVars, swVars, syVars, qfVars, dqVars, ibVars, dpVars, loVars>>

\* physical_device.rs:61-83 and 169-175: adapter selection rates the device by the
\* format and the present mode it chooses for the surface
SelectAdapter ==
    /\ sf_pc = "start"
    /\ sf_chosen_format' = choose_surface_format(sf_formats)
    /\ sf_chosen_mode' = choose_present_mode(sf_present_modes)
    /\ sf_pc' = "selected"
    /\ UNCHANGED <<sf_formats, sf_present_modes, sf_create_info>>
    /\ UNCHANGED nonSfVars

\* swapchain.rs:31-39: VSwapchain::new
VSwapchain_new ==
    /\ sf_pc = "selected"
    /\ LET format == "B8G8R8A8_SRGB"                     \* swapchain.rs:32
           color_space == "SRGB_NONLINEAR"               \* swapchain.rs:33
           present_mode == "MAILBOX"                     \* swapchain.rs:34
       IN  sf_create_info' = swapchain_create_info(format, color_space, present_mode)
    /\ sf_pc' = "created"
    /\ UNCHANGED <<sf_formats, sf_present_modes, sf_chosen_format, sf_chosen_mode>>
    /\ UNCHANGED nonSfVars

(***************************************************************************)
(* Queue-family selection of an adapter.                                   *)
(***************************************************************************)
MaxFamilies == 3

\* One entry of queue_family_properties: its GRAPHICS and COMPUTE queue flags, and
\* what get_physical_device_surface_support answers for it.
QueueFamily(graphics, compute, present) ==
    [graphics |-> graphics, compute |-> compute, present |-> present]

QueueFamilies == {QueueFamily(g, c, p) : g \in BOOLEAN, c \in BOOLEAN, p \in BOOLEAN}

\* Family indices are 0-based, as in the code: family i is families[i + 1].
FamilyIndices(families) == 0 .. (Len(families) - 1)

NoQueryErr == -1

\* Iterator::position: the index of the first family that can present, -1 for None
RECURSIVE PositionPresent(_, _)
PositionPresent(families, index) ==
    IF index >= Len(families) THEN -1
    ELSE IF families[index + 1].present THEN index
    ELSE PositionPresent(families, index + 1)

\* Iterator::position: the index of the first family with the COMPUTE flag, -1 for None
RECURSIVE PositionCompute(_, _)
PositionCompute(families, index) ==
    IF index >= Len(families) THEN -1
    ELSE IF families[index + 1].compute THEN index
    ELSE PositionCompute(families, index + 1)

\* Iterator::position: the index of the first family with the GRAPHICS flag, -1 for None
RECURSIVE PositionGraphics(_, _)
PositionGraphics(families, index) ==
    IF index >= Len(families) THEN -1
    ELSE IF families[index + 1].graphics THEN index
    ELSE PositionGraphics(families, index + 1)

\* physical_device.rs:186-194: position stops at the first family that can present,
\* so a query that errs panics only if it is asked before that family answers
SupportQueryPanics(families, query_err) ==
    /\ query_err # NoQueryErr
    /\ \/ PositionPresent(families, 0) = -1
       \/ query_err <= PositionPresent(families, 0)

VQueueFamilyIndices(present, compute, graphics) ==
    [ok |-> TRUE, err |-> "none", present |-> present, compute |-> compute,
     graphics |-> graphics]

RendererErr(err) ==
    [ok |-> FALSE, err |-> err, present |-> 0, compute |-> 0, graphics |-> 0]

NoResult == RendererErr("not called")

\* physical_device.rs:177-224
get_queue_family_indices(families) ==
    LET present == PositionPresent(families, 0)
        compute == PositionCompute(families, 0)
        graphics == PositionGraphics(families, 0)
    IN  IF present = -1 THEN RendererErr("IncompatibleQueueFamilies")
        ELSE IF compute = -1 THEN RendererErr("IncompatibleQueueFamilies")
        ELSE IF graphics = -1 THEN RendererErr("IncompatibleQueueFamilies")
        ELSE VQueueFamilyIndices(present, compute, graphics)

QfInit ==
    /\ qf_families \in SeqsUpTo(QueueFamilies, MaxFamilies) \ {<<>>}
    /\ qf_query_err \in {NoQueryErr} \cup FamilyIndices(qf_families)
    /\ qf_result = NoResult
    /\ qf_pc = "start"

QfOff ==
    /\ qf_families = <<>>
    /\ qf_query_err = NoQueryErr
    /\ qf_result = NoResult
    /\ qf_pc = "off"

nonQfVars == <<frameVars, padVars, memVars, upVars, swVars, syVars, sfVars, dqVars, ibVars, dpVars, loVars>>

\* physical_device.rs:133-134 and 177-224: VPhysicalDevice::new asks for the indices
GetQueueFamilyIndices ==
    /\ qf_pc = "start"
    /\ IF SupportQueryPanics(qf_families, qf_query_err)
       THEN /\ qf_pc' = "panicked"
            /\ UNCHANGED qf_result
       ELSE /\ qf_result' = get_queue_family_indices(qf_families)
            /\ qf_pc' = IF qf_result'.ok THEN "returned_ok" ELSE "returned_err"
    /\ UNCHANGED <<qf_families, qf_query_err>>
    /\ UNCHANGED nonQfVars

(***************************************************************************)
(* The logical device: one queue-create entry per queue family, the queue  *)
(* of each operation class, and the queue the frame loop presents on.      *)
(***************************************************************************)
\* queue_family.rs:14-16: u32::MAX (0xFFFF_FFFF), written as the 32-bit signed integer
\* with the same bits
U32_MAX == -1

\* queue_family.rs:11-19: impl Default for VQueueFamilyIndices
VQueueFamilyIndices_default ==
    [compute |-> U32_MAX, graphics |-> U32_MAX, present |-> U32_MAX]

\* The indices adapter selection can hand to VDevice::new: a family with the graphics
\* flag, a family that can present, and a family with the compute flag, or the default
\* where the adapter has no compute family.
SelectedQueueFamilyIndices(families) ==
    LET WithGraphics == {i \in FamilyIndices(families) : families[i + 1].graphics}
        WithPresent == {i \in FamilyIndices(families) : families[i + 1].present}
        WithCompute == {i \in FamilyIndices(families) : families[i + 1].compute}
        ComputeChoices == IF WithCompute = {} THEN {VQueueFamilyIndices_default.compute}
                          ELSE WithCompute
    IN  {[compute |-> c, graphics |-> g, present |-> p] :
            c \in ComputeChoices, g \in WithGraphics, p \in WithPresent}

\* device.rs:299-304
DeviceQueueCreateInfo(queue_family_index) ==
    [queue_family_index |-> queue_family_index, queue_count |-> 1, queue_priority |-> 1]

\* device.rs:297-305: a HashSet iterates in an order of its own
HashSetIterOrders(S) ==
    {s \in [1 .. Cardinality(S) -> S] : \A i, j \in 1 .. Cardinality(S) : i # j => s[i] # s[j]}

device_queue_create_infos_no_dedup(queue_family_indices) ==
    {<<DeviceQueueCreateInfo(queue_family_indices.compute),
       DeviceQueueCreateInfo(queue_family_indices.graphics),
       DeviceQueueCreateInfo(queue_family_indices.present)>>}

\* device.rs:289-306: the Vecs the function can return
device_queue_create_infos(queue_family_indices) ==
    LET unique_indices == {queue_family_indices.compute, queue_family_indices.graphics,
                           queue_family_indices.present}
    IN  {[k \in DOMAIN order |-> DeviceQueueCreateInfo(order[k])] :
            order \in HashSetIterOrders(unique_indices)}

\* vkCreateDevice asks that every entry names a queue family of the adapter and that
\* no family is named twice
ValidQueueCreateInfos(families, queue_infos) ==
    /\ \A k \in 1 .. Len(queue_infos) :
           queue_infos[k].queue_family_index \in FamilyIndices(families)
    /\ \A i, j \in 1 .. Len(queue_infos) :
           i # j => queue_infos[i].queue_family_index # queue_infos[j].queue_family_index

\* Queue handles: the null handle, and the handle of queue 0 of a family
NullQueue == 0
get_device_queue(queue_family_index, queue_index) == queue_family_index + 1
FamilyOfQueue(queue) == queue - 1

\* queue_family.rs:31-36: #[derive(Default)] for VQueues
VQueues_default == [compute |-> NullQueue, graphics |-> NullQueue, present |-> NullQueue]

\* queue_family.rs:38-51
VQueues_new(queue_family_indices) ==
    LET compute == IF queue_family_indices.compute # U32_MAX
                   THEN get_device_queue(queue_family_indices.compute, 0)
                   ELSE VQueues_default.compute
        graphics == get_device_queue(queue_family_indices.graphics, 0)
        present == IF queue_family_indices.graphics = queue_family_indices.present
                   THEN graphics
                   ELSE get_device_queue(queue_family_indices.present, 0)
    IN  [compute |-> compute, graphics |-> graphics, present |-> present]

\* queue_family.rs:53-59
VQueues_get(queues, operation_type) ==
    CASE operation_type = "Compute" -> queues.compute
      [] operation_type = "Graphics" -> queues.graphics
      [] operation_type = "Present" -> queues.present

DqInit ==
    /\ dq_families \in SeqsUpTo(QueueFamilies, MaxFamilies) \ {<<>>}
    /\ dq_indices \in SelectedQueueFamilyIndices(dq_families)
    /\ dq_infos = <<>>
    /\ dq_queues = VQueues_default
    /\ dq_present_queue = NullQueue
    /\ dq_pc = "start"

DqOff ==
    /\ dq_families = <<>>
    /\ dq_indices = VQueueFamilyIndices_default
    /\ dq_infos = <<>>
    /\ dq_queues = VQueues_default
    /\ dq_present_queue = NullQueue
    /\ dq_pc = "off"

nonDqVars == <<frameVars, padVars, memVars, upVars, swVars, syVars, sfVars, qfVars, ibVars, dpVars, loVars>>

\* device.rs:33-60: VDevice::new. create_device with entries Vulkan does not allow is
\* undefined: it may return an error or a device.
VDevice_new ==
    /\ dq_pc = "start"
    /\ \E queue_infos \in device_queue_create_infos(dq_indices) :
           /\ dq_infos' = queue_infos
           /\ \/ /\ dq_queues' = VQueues_new(dq_indices)
                 /\ dq_pc' = "device_created"
              \/ /\ ~ValidQueueCreateInfos(dq_families, queue_infos)
                 /\ dq_pc' = "device_failed"
                 /\ UNCHANGED dq_queues
    /\ UNCHANGED <<dq_families, dq_indices, dq_present_queue>>
    /\ UNCHANGED nonDqVars

\* main.rs:309-311 and swapchain.rs:131-142: the present call of the frame loop
DqQueuePresent ==
    /\ dq_pc = "device_created"
    /\ dq_present_queue' = VQueues_get(dq_queues, "Graphics")
    /\ dq_pc' = "presented"
    /\ UNCHANGED <<dq_families, dq_indices, dq_infos, dq_queues>>
    /\ UNCHANGED nonDqVars

(***************************************************************************)
(* VInstanceBuilder: the setters of the builder chain.                     *)
(***************************************************************************)
MaxNames == 3

\* The strings handed to the setters, as their bytes (0 is nul): "a\0", "b\0", "a"
\* and "a\0b\0".
NameStrings == {<<1, 0>>, <<2, 0>>, <<1>>, <<1, 0, 2, 0>>}

ApplicationInfos == {"default", "Test"}
AllocationCallbacks == {"None", "Some"}

\* memchr(0, bytes): the 0-based position of the first nul from position from on, -1 if
\* there is none
RECURSIVE memchr_nul(_, _)
memchr_nul(bytes, from) ==
    IF from >= Len(bytes) THEN -1
    ELSE IF bytes[from + 1] = 0 THEN from
    ELSE memchr_nul(bytes, from + 1)

from_bytes_with_nul_ignoring_interior(bytes) ==
    Len(bytes) > 0 /\ bytes[Len(bytes)] = 0

\* CStr::from_bytes_with_nul(..).ok() is Some: the first nul is the last byte
from_bytes_with_nul(bytes) ==
    LET nul_pos == memchr_nul(bytes, 0)
    IN  IF nul_pos = -1 THEN FALSE              \* not nul terminated
        ELSE IF nul_pos + 1 = Len(bytes) THEN TRUE
        ELSE FALSE                              \* interior nul

\* instance.rs:203-207: iter().filter_map(from_bytes_with_nul .ok()).map(as_ptr).collect()
RECURSIVE filter_map_cstr(_, _)
filter_map_cstr(strs, k) ==
    IF k > Len(strs) THEN <<>>
    ELSE IF from_bytes_with_nul(strs[k]) THEN <<strs[k]>> \o filter_map_cstr(strs, k + 1)
    ELSE filter_map_cstr(strs, k + 1)

\* instance.rs:198-200: VInstanceBuilder::start
VInstanceBuilder_default ==
    [layers |-> <<>>, extensions |-> <<>>, application_info |-> "default",
     allocation_callbacks |-> "None"]

NoCall == [op |-> "none", arg |-> <<>>]

IbInit ==
    /\ ib_builder = VInstanceBuilder_default
    /\ ib_last = NoCall
    /\ ib_called = {}

IbOff ==
    /\ ib_builder = VInstanceBuilder_default
    /\ ib_last = NoCall
    /\ ib_called = {"off"}

nonIbVars == <<frameVars, padVars, memVars, upVars, swVars, syVars, sfVars, qfVars, dqVars, dpVars, loVars>>

\* instance.rs:277-280: a chain calls each setter once
IbCanCall(setter) == "off" \notin ib_called /\ setter \notin ib_called

\* instance.rs:202-209
VInstanceBuilder_layers ==
    /\ IbCanCall("layers")
    /\ \E layers \in SeqsUpTo(NameStrings, MaxNames) :
           /\ ib_builder' = [ib_builder EXCEPT !.layers = filter_map_cstr(layers, 1)]
           /\ ib_last' = [op |-> "layers", arg |-> layers]
    /\ ib_called' = ib_called \cup {"layers"}
    /\ UNCHANGED nonIbVars

\* instance.rs:211-218
VInstanceBuilder_extensions ==
    /\ IbCanCall("extensions")
    /\ \E extensions \in SeqsUpTo(NameStrings, MaxNames) :
           /\ ib_builder' = [ib_builder EXCEPT !.extensions = filter_map_cstr(extensions, 1)]
           /\ ib_last' = [op |-> "extensions", arg |-> extensions]
    /\ ib_called' = ib_called \cup {"extensions"}
    /\ UNCHANGED nonIbVars

\* instance.rs:220-223
VInstanceBuilder_application_info ==
    /\ IbCanCall("application_info")
    /\ \E application_info \in ApplicationInfos :
           ib_builder' = [ib_builder EXCEPT !.application_info = application_info]
    /\ ib_last' = [op |-> "application_info", arg |-> <<>>]
    /\ ib_called' = ib_called \cup {"application_info"}
    /\ UNCHANGED nonIbVars

\* instance.rs:225-231
VInstanceBuilder_allocation_callbacks ==
    /\ IbCanCall("allocation_callbacks")
    /\ \E allocation_callbacks \in AllocationCallbacks :
           ib_builder' = [ib_builder EXCEPT !.allocation_callbacks = allocation_callbacks]
    /\ ib_last' = [op |-> "allocation_callbacks", arg |-> <<>>]
    /\ ib_called' = ib_called \cup {"allocation_callbacks"}
    /\ UNCHANGED nonIbVars

(***************************************************************************)
(* Attachments: the framebuffers of the swapchain, the render pass's       *)
(* subpass dependencies, and the pipeline stages of the unfinished         *)
(* submissions, which the GPU may overlap.                                 *)
(***************************************************************************)
MaxDepthFrames == 4
MaxDepthImages == 4

DpImageCounts == {2, MaxDepthImages}
DpImages == DOMAIN dp_img
dp_frame_index == FrameIndex(dp_frame_count)

\* swapchain.rs:43-55: the one depth image of the swapchain
depth_image_view == <<"depth_image", 0>>

\* swapchain.rs:162-190: attachments = vec![image_view, depth_image_view]
create_framebuffers_with_depth(image_views, depth_view) ==
    [k \in 1 .. Len(image_views) |-> <<image_views[k], depth_view>>]

\* The pipeline stages of a submission, in pipeline order.  A submission's progress is 0
\* before its first stage and k while stage k runs.
PipelineStages ==
    <<"VERTEX_SHADER", "EARLY_FRAGMENT_TESTS", "LATE_FRAGMENT_TESTS",
      "COLOR_ATTACHMENT_OUTPUT">>

StageIndex(stage) == CHOOSE k \in 1 .. Len(PipelineStages) : PipelineStages[k] = stage

SubpassDependency(src_stage_mask, dst_stage_mask, dst_access_mask) ==
    [src_stage_mask |-> src_stage_mask, dst_stage_mask |-> dst_stage_mask,
     dst_access_mask |-> dst_access_mask]

\* The render pass with its colour dependency only.
subpass_dependencies_color_only ==
    <<SubpassDependency({"COLOR_ATTACHMENT_OUTPUT"}, {"COLOR_ATTACHMENT_OUTPUT"},
                        {"COLOR_ATTACHMENT_WRITE"})>>

\* render_pass.rs:68-90: both dependencies are from SUBPASS_EXTERNAL to subpass 0
subpass_dependencies ==
    <<SubpassDependency({"COLOR_ATTACHMENT_OUTPUT"}, {"COLOR_ATTACHMENT_OUTPUT"},
                        {"COLOR_ATTACHMENT_WRITE"}),
      SubpassDependency({"EARLY_FRAGMENT_TESTS", "LATE_FRAGMENT_TESTS"},
                        {"EARLY_FRAGMENT_TESTS", "LATE_FRAGMENT_TESTS"},
                        {"DEPTH_STENCIL_ATTACHMENT_WRITE"})>>

\* A dependency from SUBPASS_EXTERNAL lets a stage of its dst_stage_mask start only when
\* every submission earlier in submission order has finished the stages of its
\* src_stage_mask.
StageMayStart(batches, k, stage) ==
    \A d \in 1 .. Len(subpass_dependencies) :
        stage \in subpass_dependencies[d].dst_stage_mask =>
            \A j \in 1 .. (k - 1) :
                \A src \in subpass_dependencies[d].src_stage_mask :
                    batches[j].progress > StageIndex(src)

\* The attachments of its framebuffer a submission writes in the stage it is in: the
\* depth attachment in the fragment tests (clear, test and store), the colour attachment
\* in the colour-attachment output.
AttachmentsWritten(batch) ==
    IF batch.progress \in {StageIndex("EARLY_FRAGMENT_TESTS"), StageIndex("LATE_FRAGMENT_TESTS")}
    THEN {batch.framebuffer[2]}
    ELSE IF batch.progress = StageIndex("COLOR_ATTACHMENT_OUTPUT")
    THEN {batch.framebuffer[1]}
    ELSE {}

DpFramebuffers ==
    create_framebuffers_with_depth([k \in 1 .. Cardinality(DpImages) |-> <<"view", k - 1>>],
                                   depth_image_view)

DpInit ==
    /\ dp_frame_count = 0
    /\ dp_pc = "wait"
    /\ dp_fence = [s \in Slots |-> TRUE]           \* frame_data.rs:36 VFence::new(device, true)
    /\ dp_batches = <<>>
    /\ dp_img \in {[i \in 0 .. (n - 1) |-> "free"] : n \in DpImageCounts}
    /\ dp_image_ind = 0

DpOff ==
    /\ dp_frame_count = 0
    /\ dp_pc = "off"
    /\ dp_fence = [s \in Slots |-> TRUE]
    /\ dp_batches = <<>>
    /\ dp_img = <<>>
    /\ dp_image_ind = 0

nonDpVars == <<frameVars, padVars, memVars, upVars, swVars, syVars, sfVars, qfVars, dqVars, ibVars, loVars>>

\* main.rs:216-222: wait_for_fences returns Ok, then reset_fences
DpWaitAndResetFences ==
    /\ dp_pc = "wait"
    /\ dp_frame_count < MaxDepthFrames
    /\ dp_fence[dp_frame_index]
    /\ dp_fence' = [dp_fence EXCEPT ![dp_frame_index] = FALSE]
    /\ dp_pc' = "acquire"
    /\ UNCHANGED <<dp_frame_count, dp_batches, dp_img, dp_image_ind>>
    /\ UNCHANGED nonDpVars

\* main.rs:224-230
DpAcquireNextImage ==
    /\ dp_pc = "acquire"
    /\ \E i \in DpImages :
        /\ dp_img[i] = "free"
        /\ dp_image_ind' = i
        /\ dp_img' = [dp_img EXCEPT ![i] = "acquired"]
    /\ dp_pc' = "submit"
    /\ UNCHANGED <<dp_frame_count, dp_fence, dp_batches>>
    /\ UNCHANGED nonDpVars

\* main.rs:236-302: the render pass is recorded on framebuffers[image_ind] and the
\* command buffer is submitted with the slot's fence
DpQueueSubmit ==
    /\ dp_pc = "submit"
    /\ dp_batches' = Append(dp_batches,
                            [frame |-> dp_frame_count, fence |-> dp_frame_index,
                             image |-> dp_image_ind,
                             framebuffer |-> DpFramebuffers[dp_image_ind + 1],
                             progress |-> 0])
    /\ dp_pc' = "present"
    /\ UNCHANGED <<dp_frame_count, dp_fence, dp_img, dp_image_ind>>
    /\ UNCHANGED nonDpVars

\* main.rs:304-332: queue_present, then frame_count += 1
DpQueuePresent ==
    /\ dp_pc = "present"
    /\ dp_img' = [dp_img EXCEPT ![dp_image_ind] = "queued"]
    /\ dp_frame_count' = dp_frame_count + 1
    /\ dp_pc' = "wait"
    /\ UNCHANGED <<dp_fence, dp_batches, dp_image_ind>>
    /\ UNCHANGED nonDpVars

\* The GPU moves an unfinished submission to its next pipeline stage, where the render
\* pass's dependencies allow it; submissions overlap otherwise.
DpStageStart ==
    /\ \E k \in 1 .. Len(dp_batches) :
        /\ dp_batches[k].progress < Len(PipelineStages)
        /\ StageMayStart(dp_batches, k, PipelineStages[dp_batches[k].progress + 1])
        /\ dp_batches' = [dp_batches EXCEPT ![k].progress = @ + 1]
    /\ UNCHANGED <<dp_frame_count, dp_pc, dp_fence, dp_img, dp_image_ind>>
    /\ UNCHANGED nonDpVars

\* A submission whose last stage ran completes: its fence is signaled.
DpSubmissionComplete ==
    /\ \E k \in 1 .. Len(dp_batches) :
        /\ dp_batches[k].progress = Len(PipelineStages)
        /\ dp_fence' = [dp_fence EXCEPT ![dp_batches[k].fence] = TRUE]
        /\ dp_batches' = [j \in 1 .. (Len(dp_batches) - 1) |->
                              IF j < k THEN dp_batches[j] ELSE dp_batches[j + 1]]
    /\ UNCHANGED <<dp_frame_count, dp_pc, dp_img, dp_image_ind>>
    /\ UNCHANGED nonDpVars

\* The presentation engine shows a queued image once its rendering has completed (the
\* present waits on render_semaphore), and gives it back.
DpPresentationRelease ==
    /\ \E i \in DpImages :
        /\ dp_img[i] = "queued"
        /\ \A k \in 1 .. Len(dp_batches) : dp_batches[k].image # i
        /\ dp_img' = [dp_img EXCEPT ![i] = "free"]
    /\ UNCHANGED <<dp_frame_count, dp_pc, dp_fence, dp_batches, dp_image_ind>>
    /\ UNCHANGED nonDpVars

(***************************************************************************)
(* The Vulkan objects alive after a sequence of staged uploads.            *)
(***************************************************************************)
MaxUploads == 3

\* The places where a call of new_mapped / new_unmapped can return (buffer.rs:35-42,
\* 54-59): create_buffer fails, create_memory fails, a later call fails, or Ok.
BufferOutcomes == {"create_buffer_err", "create_memory_err", "bind_or_map_err", "ok"}

\* buffer.rs:35-37 (54-56): the buffers and allocations a call has created when it returns
BuffersCreated(outcome) == IF outcome = "create_buffer_err" THEN 0 ELSE 1
MemoryAllocated(outcome) == IF outcome \in {"create_buffer_err", "create_memory_err"} THEN 0 ELSE 1

\* The places where copy_buffer can return before it waits (buffer.rs:113-139).
CopyOutcomes == {"command_pool_err", "allocate_err", "record_or_submit_err", "ok"}

\* buffer.rs:140-142: queue_wait_idle returns Ok or Err
WaitIdleOutcomes == {"wait_idle_err", "ok"}

\* buffer.rs:113-118
PoolsCreated(outcome) == IF outcome = "command_pool_err" THEN 0 ELSE 1
CommandBuffersAllocated(outcome) ==
    IF outcome \in {"command_pool_err", "allocate_err"} THEN 0 ELSE 1

\* VBuffer is Clone + Copy (buffer.rs:17-21) and so has no destructor: a VBuffer going
\* out of scope releases nothing.
VBuffer_drop_buffers == 0

\* What dropping a VCommandPool does to its pool: destroy it or leave it alive.
VCommandPool_drop_destroys == BOOLEAN

LoInit ==
    /\ lo_pc = "idle"
    /\ lo_ok = 0
    /\ lo_err = 0
    /\ lo_buffers = 0
    /\ lo_memory = 0
    /\ lo_pools = 0
    /\ lo_cmds = 0
    /\ lo_pool_drop \in VCommandPool_drop_destroys
    /\ lo_queue = 0

LoOff ==
    /\ lo_pc = "off"
    /\ lo_ok = 0
    /\ lo_err = 0
    /\ lo_buffers = 0
    /\ lo_memory = 0
    /\ lo_pools = 0
    /\ lo_cmds = 0
    /\ lo_pool_drop = FALSE
    /\ lo_queue = 0

nonLoVars == <<frameVars, padVars, memVars, upVars, swVars, syVars, sfVars, qfVars, dqVars, ibVars, dpVars>>

\* buffer.rs:62 (87): new_vertex_buffer or new_index_buffer is called
LoUploadCalled ==
    /\ lo_pc = "idle"
    /\ lo_ok + lo_err < MaxUploads
    /\ lo_pc' = "staging"
    /\ UNCHANGED <<lo_ok, lo_err, lo_buffers, lo_memory, lo_pools, lo_cmds, lo_pool_drop,
                   lo_queue>>
    /\ UNCHANGED nonLoVars

\* buffer.rs:63-68 (88-93): the staging buffer; on Err the ? returns
LoNewStaging ==
    /\ lo_pc = "staging"
    /\ \E outcome \in BufferOutcomes :
        /\ lo_buffers' = lo_buffers + BuffersCreated(outcome)
        /\ lo_memory' = lo_memory + MemoryAllocated(outcome)
        /\ IF outcome = "ok"
           THEN lo_pc' = "destination" /\ UNCHANGED lo_err
           ELSE lo_pc' = "idle" /\ lo_err' = lo_err + 1
    /\ UNCHANGED <<lo_ok, lo_pools, lo_cmds, lo_pool_drop, lo_queue>>
    /\ UNCHANGED nonLoVars

\* buffer.rs:70-75 (95-100): the destination buffer; on Err the staging buffer goes
\* out of scope
LoNewDestination ==
    /\ lo_pc = "destination"
    /\ \E outcome \in BufferOutcomes :
        /\ lo_buffers' = lo_buffers + BuffersCreated(outcome)
                             - (IF outcome = "ok" THEN 0 ELSE VBuffer_drop_buffers)
        /\ lo_memory' = lo_memory + MemoryAllocated(outcome)
                            - (IF outcome = "ok" THEN 0 ELSE VBuffer_drop_buffers)
        /\ IF outcome = "ok"
           THEN lo_pc' = "copy" /\ UNCHANGED lo_err
           ELSE lo_pc' = "idle" /\ lo_err' = lo_err + 1
    /\ UNCHANGED <<lo_ok, lo_pools, lo_cmds, lo_pool_drop, lo_queue>>
    /\ UNCHANGED nonLoVars

\* buffer.rs:113-139: copy_buffer creates the transient pool and its command buffer,
\* records the copy and submits it.  On Err the ? returns and command_pool goes out of
\* scope, and so do the two buffers of the caller; on Ok the pool and the command
\* buffer are alive and the copy is on the queue.
LoCopySubmit ==
    /\ lo_pc = "copy"
    /\ \E outcome \in CopyOutcomes :
        IF outcome = "ok"
        THEN /\ lo_pools' = lo_pools + PoolsCreated(outcome)
             /\ lo_cmds' = lo_cmds + CommandBuffersAllocated(outcome)
             /\ lo_queue' = lo_queue + 1
             /\ lo_pc' = "wait_idle"
             /\ UNCHANGED <<lo_err, lo_buffers, lo_memory>>
        ELSE /\ lo_pools' = lo_pools + (IF lo_pool_drop THEN 0 ELSE PoolsCreated(outcome))
             /\ lo_cmds' = lo_cmds
                             + (IF lo_pool_drop THEN 0 ELSE CommandBuffersAllocated(outcome))
             /\ lo_pc' = "idle"
             /\ lo_err' = lo_err + 1
             /\ lo_buffers' = lo_buffers - 2 * VBuffer_drop_buffers
             /\ lo_memory' = lo_memory - 2 * VBuffer_drop_buffers
             /\ UNCHANGED lo_queue
    /\ UNCHANGED <<lo_ok, lo_pool_drop>>
    /\ UNCHANGED nonLoVars

\* The GPU runs a submitted copy.
LoGpuExecuteCopy ==
    /\ lo_queue > 0
    /\ lo_queue' = lo_queue - 1
    /\ UNCHANGED <<lo_pc, lo_ok, lo_err, lo_buffers, lo_memory, lo_pools, lo_cmds,
                   lo_pool_drop>>
    /\ UNCHANGED nonLoVars

\* buffer.rs:140-146: queue_wait_idle returns Ok once the queue is idle, or Err; then
\* copy_buffer returns and command_pool goes out of scope
LoQueueWaitIdle ==
    /\ lo_pc = "wait_idle"
    /\ \E outcome \in WaitIdleOutcomes :
        /\ outcome = "ok" => lo_queue = 0
        /\ lo_pools' = lo_pools - (IF lo_pool_drop THEN 1 ELSE 0)
        /\ lo_cmds' = lo_cmds - (IF lo_pool_drop THEN 1 ELSE 0)
        /\ IF outcome = "ok"
           THEN /\ lo_pc' = "return"
                /\ UNCHANGED <<lo_err, lo_buffers, lo_memory>>
           ELSE /\ lo_pc' = "idle"
                /\ lo_err' = lo_err + 1
                /\ lo_buffers' = lo_buffers - 2 * VBuffer_drop_buffers
                /\ lo_memory' = lo_memory - 2 * VBuffer_drop_buffers
    /\ UNCHANGED <<lo_ok, lo_pool_drop, lo_queue>>
    /\ UNCHANGED nonLoVars

\* buffer.rs:84 (104): Ok(vertex_buffer); staging_buffer goes out of scope
LoReturnOk ==
    /\ lo_pc = "return"
    /\ lo_buffers' = lo_buffers - VBuffer_drop_buffers
    /\ lo_memory' = lo_memory - VBuffer_drop_buffers
    /\ lo_ok' = lo_ok + 1
    /\ lo_pc' = "idle"
    /\ UNCHANGED <<lo_err, lo_pools, lo_cmds, lo_pool_drop, lo_queue>>
    /\ UNCHANGED nonLoVars

Init == FrameInit /\ PadOff /\ MemOff /\ UpOff /\ SwOff /\ SyOff /\ SfOff /\ QfOff /\ DqOff /\ IbOff /\ DpOff /\ LoOff

Next ==
    \/ WaitForFences
    \/ WaitTimeout
    \/ ResetFences
    \/ AcquireNextImage
    \/ BeginCommandBuffer
    \/ CmdBeginRenderPass
    \/ CmdBindPipeline
    \/ MapPaddedMemory
    \/ DrawModel
    \/ DrawSkipModel
    \/ CmdEndRenderPass
    \/ EndCommandBuffer
    \/ QueueSubmit
    \/ QueuePresent
    \/ VkCallFails
    \/ GpuFinish
    \/ PresentationRelease

Spec == Init /\ [][Next]_vars

InitPad == FrameOff /\ PadInit /\ MemOff /\ UpOff /\ SwOff /\ SyOff /\ SfOff /\ QfOff /\ DqOff /\ IbOff /\ DpOff /\ LoOff

NextPad == PadApply \/ PadAgain

SpecPad == InitPad /\ [][NextPad]_vars

InitMem == FrameOff /\ PadOff /\ MemInit /\ UpOff /\ SwOff /\ SyOff /\ SfOff /\ QfOff /\ DqOff /\ IbOff /\ DpOff /\ LoOff

NextMem == BufferFindMemoryType \/ ImageFindMemoryType

SpecMem == InitMem /\ [][NextMem]_vars

InitUpload == FrameOff /\ PadOff /\ MemOff /\ UpInit /\ SwOff /\ SyOff /\ SfOff /\ QfOff /\ DqOff /\ IbOff /\ DpOff /\ LoOff

NextUpload ==
    \/ CreateStagingBuffer
    \/ CreateDestinationBuffer
    \/ RecordCopy
    \/ SubmitCopy
    \/ GpuExecuteCopy
    \/ QueueWaitIdle
    \/ UploadCallFails

SpecUpload == InitUpload /\ [][NextUpload]_vars

InitSwap == FrameOff /\ PadOff /\ MemOff /\ UpOff /\ SwInit /\ SyOff /\ SfOff /\ QfOff /\ DqOff /\ IbOff /\ DpOff /\ LoOff

NextSwap ==
    \/ SwAcquireNextImage
    \/ SwAcquireFails
    \/ SwQueuePresent
    \/ SwGetCurrent

SpecSwap == InitSwap /\ [][NextSwap]_vars

InitSync == FrameOff /\ PadOff /\ MemOff /\ UpOff /\ SwOff /\ SyInit /\ SfOff /\ QfOff /\ DqOff /\ IbOff /\ DpOff /\ LoOff

NextSync ==
    \/ SyWaitAndResetFences
    \/ SyAcquireNextImage
    \/ SyQueueSubmit
    \/ SyQueuePresent
    \/ SyImageReady
    \/ SyColorOutputStart
    \/ SyExecutionFinish
    \/ SyPresentationStart
    \/ SyPresentationDone

SpecSync == InitSync /\ [][NextSync]_vars

InitSurface == FrameOff /\ PadOff /\ MemOff /\ UpOff /\ SwOff /\ SyOff /\ SfInit /\ QfOff /\ DqOff /\ IbOff /\ DpOff /\ LoOff

NextSurface ==
    \/ SelectAdapter
    \/ VSwapchain_new

SpecSurface == InitSurface /\ [][NextSurface]_vars

InitQueueFamilies == FrameOff /\ PadOff /\ MemOff /\ UpOff /\ SwOff /\ SyOff /\ SfOff /\ QfInit /\ DqOff /\ IbOff /\ DpOff /\ LoOff

NextQueueFamilies == GetQueueFamilyIndices

SpecQueueFamilies == InitQueueFamilies /\ [][NextQueueFamilies]_vars

InitDeviceQueues ==
    FrameOff /\ PadOff /\ MemOff /\ UpOff /\ SwOff /\ SyOff /\ SfOff /\ QfOff /\ DqInit /\ IbOff /\ DpOff /\ LoOff

NextDeviceQueues ==
    \/ VDevice_new
    \/ DqQueuePresent

SpecDeviceQueues == InitDeviceQueues /\ [][NextDeviceQueues]_vars

InitBuilder ==
    FrameOff /\ PadOff /\ MemOff /\ UpOff /\ SwOff /\ SyOff /\ SfOff /\ QfOff /\ DqOff /\ IbInit /\ DpOff /\ LoOff

NextBuilder ==
    \/ VInstanceBuilder_layers
    \/ VInstanceBuilder_extensions
    \/ VInstanceBuilder_application_info
    \/ VInstanceBuilder_allocation_callbacks

SpecBuilder == InitBuilder /\ [][NextBuilder]_vars

InitAttachments ==
    FrameOff /\ PadOff /\ MemOff /\ UpOff /\ SwOff /\ SyOff /\ SfOff /\ QfOff /\ DqOff /\ IbOff /\ DpInit /\ LoOff

NextAttachments ==
    \/ DpWaitAndResetFences
    \/ DpAcquireNextImage
    \/ DpQueueSubmit
    \/ DpQueuePresent
    \/ DpStageStart
    \/ DpSubmissionComplete
    \/ DpPresentationRelease

SpecAttachments == InitAttachments /\ [][NextAttachments]_vars

InitUploadObjects ==
    FrameOff /\ PadOff /\ MemOff /\ UpOff /\ SwOff /\ SyOff /\ SfOff /\ QfOff /\ DqOff /\ IbOff /\ DpOff /\ LoInit

NextUploadObjects ==
    \/ LoUploadCalled
    \/ LoNewStaging
    \/ LoNewDestination
    \/ LoCopySubmit
    \/ LoGpuExecuteCopy
    \/ LoQueueWaitIdle
    \/ LoReturnOk

SpecUploadObjects == InitUploadObjects /\ [][NextUploadObjects]_vars

(***************************************************************************)
(* Properties of the frame loop.                                           *)
(***************************************************************************)
\* The CPU positions at which the slot's command buffer is being recorded or is
\* recorded and not yet submitted.
RecordingPcs == {"begin_render_pass", "bind_pipeline", "map_padded_memory", "draw",
                 "end_command_buffer", "queue_submit"}

QueueIndices == 1 .. Len(gpu_queue)

\* C1: frame f uses slot f mod N, and while frame f is being recorded no earlier use
\* of its slot (frame f - N) is unfinished on the GPU or unobserved by the CPU: the
\* wait on the slot's fence returned signaled before begin_command_buffer.
C1_RecordAfterFenceWait ==
    /\ \A k \in QueueIndices : gpu_queue[k].slot = gpu_queue[k].frame % NUM_FRAMES
    /\ pc \in RecordingPcs =>
          /\ \A k \in QueueIndices :
                /\ gpu_queue[k].frame # frame_count - NUM_FRAMES
                /\ gpu_queue[k].slot # frame_count % NUM_FRAMES
          /\ \A s \in cpu_inflight : s.slot # frame_count % NUM_FRAMES

\* A slot is recorded for the second time while the other slots' frames are still
\* unfinished on the GPU: its own earlier frame had to finish first.
C1_Witness ==
    /\ pc = "begin_render_pass"
    /\ frame_count >= NUM_FRAMES
    /\ Len(gpu_queue) = NUM_FRAMES - 1

\* C2: each slot has at most one unfinished submission, at most N frames are in
\* flight, and frames f and f + N are never in flight together.
C2_OneInFlightPerSlot ==
    /\ \A s \in Slots : Cardinality({k \in QueueIndices : gpu_queue[k].slot = s}) <= 1
    /\ Len(gpu_queue) <= NUM_FRAMES
    /\ \A j, k \in QueueIndices : gpu_queue[j].frame # gpu_queue[k].frame + NUM_FRAMES

\* N frames are in flight at once, the newest one on a reused slot.
C2_Witness ==
    /\ Len(gpu_queue) = NUM_FRAMES
    /\ \E k \in QueueIndices : gpu_queue[k].frame >= NUM_FRAMES

\* C3: no host write of a uniform byte range overlaps a range bound by a frame that
\* was submitted and whose fence the CPU has not yet observed signaled.
C3_NoWriteWhileBound ==
    \A w \in last_write : \A s \in cpu_inflight : \A r \in s.reads : ~Overlap(w, r)

\* C4: the padded write of a slot and the dynamic offset bound for it are both
\* frame_index * stride, stride being the padded size of the scene struct.
C4_WriteAndBindOffsetsAgree ==
    LET stride == device_pad_uniform_buffer_size(min_align, SceneDataSize)
        cmds == cmd_buf[frame_index]
    IN  (pc \in {"draw", "end_command_buffer", "queue_submit"} /\ wrote_off # -1) =>
            /\ wrote_off = frame_index * stride
            /\ scene_buffer_size = NUM_FRAMES * stride
            /\ \A k \in 1 .. Len(cmds) :
                  cmds[k].op = "bind_descriptor_sets" => cmds[k].dyn_off = frame_index * stride

(***************************************************************************)
(* Properties of pad_uniform_buffer_size.                                  *)
(***************************************************************************)
RECURSIVE IsPowerOfTwo(_)
IsPowerOfTwo(a) == a = 1 \/ (a > 1 /\ a % 2 = 0 /\ IsPowerOfTwo(a \div 2))

\* ceil(size / a) * a
CeilToMultiple(size, a) == ((size + a - 1) \div a) * a

PadResultIsCeil ==
    /\ pad_once = CeilToMultiple(pad_size, pad_align)
    /\ pad_once >= pad_size
    /\ pad_once % pad_align = 0
    /\ pad_once < pad_size + pad_align

\* C5 as claimed: for every alignment a > 0, a power of two or not, the padded size
\* is ceil(size / a) * a, at least size, a multiple of a and below size + a.
C5_PadIsCeilForEveryAlignment ==
    (pad_pc # "input" /\ pad_align > 0) => PadResultIsCeil

\* C5, amended: the same for every alignment that is a power of two, as the device
\* limit is; with alignment 0 the size comes back unchanged. 176 with 256 gives 256.
C5_PadIsCeilForPowerOfTwo ==
    /\ (pad_pc # "input" /\ IsPowerOfTwo(pad_align)) => PadResultIsCeil
    /\ (pad_pc # "input" /\ pad_align = 0) => pad_once = pad_size
    /\ (pad_pc # "input" /\ pad_size = 176 /\ pad_align = 256) => pad_once = 256

C5_Witness ==
    /\ pad_pc = "padded"
    /\ pad_size = 176
    /\ pad_align = 256
    /\ pad_once = 256

\* C6: padding a padded size with the same alignment returns it unchanged.
C6_PadIdempotent ==
    pad_pc = "repadded" => pad_twice = pad_once

\* A size the first padding changed is padded a second time.
C6_Witness ==
    /\ pad_pc = "repadded"
    /\ pad_align > 1
    /\ pad_once # pad_size
    /\ pad_twice = pad_once

(***************************************************************************)
(* Properties of find_memory_type_index.                                   *)
(***************************************************************************)
\* The indices of the table a request may be given: the type's bit is in the mask
\* and the type has every requested flag.
Qualifying(memory_types, memory_type_bits, flags) ==
    { i \in 0 .. (Len(memory_types) - 1) :
        /\ (memory_type_bits \div Pow2(i)) % 2 = 1
        /\ flags \subseteq memory_types[i + 1] }

\* C7: either version returns the lowest qualifying index, and panics exactly when
\* no index qualifies.
C7_LowestQualifyingIndex ==
    mem_pc = "done" =>
        LET Q == Qualifying(mem_types, mem_bits, mem_flags)
        IN  IF Q = {} THEN ~mem_result.ok
            ELSE /\ mem_result.ok
                 /\ mem_result.index \in Q
                 /\ \A j \in Q : mem_result.index <= j

\* A type with the flags but outside the mask is passed over for a later one.
C7_Witness ==
    /\ mem_pc = "done"
    /\ mem_result.ok
    /\ mem_result.index > 0
    /\ mem_flags # {}
    /\ mem_flags \subseteq mem_types[1]
    /\ mem_bits % 2 = 0

(***************************************************************************)
(* Properties of the staged upload.                                        *)
(***************************************************************************)
\* C8: when the upload returns Ok the copy has been executed by the GPU and the
\* destination holds the source data over its whole length data.len() * size_of::<T>().
C8_DestinationPopulatedOnReturn ==
    up_pc = "returned_ok" =>
        /\ up_queue = <<>>
        /\ up_dst.created
        /\ Len(up_dst.bytes) = Len(up_data) * SizeOfElem(up_kind)
        /\ \A k \in 1 .. Len(up_dst.bytes) :
              up_dst.bytes[k] = <<up_data[((k - 1) \div SizeOfElem(up_kind)) + 1],
                                  ((k - 1) % SizeOfElem(up_kind)) + 1>>

\* An upload of two different vertices has returned Ok.
C8_Witness ==
    /\ up_pc = "returned_ok"
    /\ up_kind = "vertex"
    /\ up_data = <<1, 2>>

\* C9 as claimed: the memory type of the destination never has the host-visible
\* property, and nothing maps the destination's memory.
C9_DestinationNeverHostVisible ==
    up_dst.created =>
        /\ "HOST_VISIBLE" \notin up_types[up_dst.mem_type + 1]
        /\ up_dst_maps = 0

\* C9, amended: the memory type of the destination has the device-local property and
\* is one the buffer's memoryTypeBits allow, and nothing maps the destination's memory.
C9_DestinationDeviceLocalUnmapped ==
    up_dst.created =>
        /\ "DEVICE_LOCAL" \in up_types[up_dst.mem_type + 1]
        /\ (up_bits \div Pow2(up_dst.mem_type)) % 2 = 1
        /\ up_dst_maps = 0

\* The upload has returned Ok with its destination in memory that is device-local
\* and host-visible at once.
C9_Witness ==
    /\ up_pc = "returned_ok"
    /\ {"DEVICE_LOCAL", "HOST_VISIBLE"} \subseteq up_types[up_dst.mem_type + 1]

(***************************************************************************)
(* Properties of the swapchain.                                            *)
(***************************************************************************)
\* C10: after any sequence of acquire and present calls the current image index is
\* below the image count, the image, view and framebuffer arrays all have that
\* length, and no indexing with the current index has gone out of range.
C10_ImageIndexInRange ==
    /\ image_index >= 0
    /\ image_index < Len(sw_images)
    /\ Len(sw_image_views) = Len(sw_images)
    /\ Len(sw_framebuffers) = Len(sw_images)
    /\ Len(sw_vframebuffers) = Len(sw_images)
    /\ ~sw_panicked

\* Two acquires with no present between them, then the framebuffer is indexed.
C10_Witness ==
    /\ Len(sw_log) >= 3
    /\ sw_log[Len(sw_log) - 2] = "acquire"
    /\ sw_log[Len(sw_log) - 1] = "acquire"
    /\ sw_log[Len(sw_log)] = "get"
    /\ image_index > 0

(***************************************************************************)
(* The staged upload with the CPU scheduled fairly and the GPU free never  *)
(* to execute what was submitted.                                          *)
(***************************************************************************)
\* The calling thread runs: every step of new_vertex_buffer / copy_buffer that can
\* return does return. Nothing obliges the GPU to execute (GpuExecuteCopy) and no
\* Vulkan call is obliged to fail (UploadCallFails).
UploadCpuFairness ==
    /\ WF_vars(CreateStagingBuffer)
    /\ WF_vars(CreateDestinationBuffer)
    /\ WF_vars(RecordCopy)
    /\ WF_vars(SubmitCopy)
    /\ WF_vars(QueueWaitIdle)

SpecUploadWaits == InitUpload /\ [][NextUpload]_vars /\ UploadCpuFairness

\* C11: every blocking wait returns within a bounded time, with a failure if the GPU
\* never signals; for the staged upload: once the copy is submitted, queue_wait_idle
\* returns (Ok or Err) even if the GPU never executes the copy.
C11_QueueWaitIdleReturns ==
    (up_pc = "submitted") ~> (up_pc \in {"returned_ok", "returned_err"})

(***************************************************************************)
(* Errors and step order of the frame loop.                                *)
(***************************************************************************)
\* C12: a wait on the slot's fence that times out ends the frame loop there: the
\* loop goes nowhere but to its abort, and from then on no fence is reset, no image
\* is acquired, nothing is submitted and no command buffer or uniform range is
\* touched (the GPU and the presentation engine may still finish what they hold).
C12_TimeoutAbortsLoop ==
    [][ /\ (pc = "wait" /\ ~fence[frame_index] /\ pc' # pc) => pc' = "aborted"
        /\ pc = "aborted" =>
              /\ pc' = "aborted"
              /\ \A s \in Slots : fence[s] => fence'[s]
              /\ \A i \in Images : img_state'[i] = "acquired" => img_state[i] = "acquired"
              /\ Len(gpu_queue') <= Len(gpu_queue)
              /\ UNCHANGED <<frame_count, image_ind, cmd_buf, wrote_off, last_write,
                             cpu_inflight>> ]_vars

\* The loop has aborted in the wait of a reused slot whose earlier frame the GPU has
\* not finished: the fence is still unsignaled and the slot's commands are intact.
C12_Witness ==
    /\ pc = "aborted"
    /\ frame_count >= NUM_FRAMES
    /\ ~fence[frame_index]
    /\ \E k \in QueueIndices : gpu_queue[k].frame = frame_count - NUM_FRAMES
    /\ cmd_buf[frame_index] # <<>>

\* What the closure body itself changes; the GPU and the presentation engine change
\* only fence, gpu_queue and img_state.
CpuOwned == <<frame_count, image_ind, model_i, cmd_buf, wrote_off, cpu_inflight>>

\* What the step of a failing call leaves in the command buffers: nothing new, or, when
\* the call is a map_memory of Scene::draw, the two bind commands recorded before it.
FailingCallRecords ==
    \/ UNCHANGED cmd_buf
    \/ /\ pc = "draw"
       /\ cmd_buf' = [cmd_buf EXCEPT ![frame_index] = @ \o ModelCommandsBeforeMap]

\* C13: a fallible call of the frame that returns Err aborts the loop at that call.
\* Nothing that follows the failing call in the frame is done (no descriptor bind, push
\* constant, draw, end, submit or present), the loop is aborted from the moment an error
\* exists, and after the abort no step runs again: no later step of the frame, no later
\* frame, no retry of the failed call.
C13_ErrorAbortsLoop ==
    /\ [](last_err # "none" => pc = "aborted")
    /\ [][ /\ last_err' # last_err =>
                /\ last_err = "none"
                /\ last_err' = pc
                /\ pc \in FalliblePcs
                /\ pc' = "aborted"
                /\ UNCHANGED <<fence, gpu_queue, img_state>>
                /\ UNCHANGED <<frame_count, image_ind, model_i, wrote_off, cpu_inflight>>
                /\ FailingCallRecords
           /\ pc = "aborted" =>
                /\ pc' = "aborted"
                /\ UNCHANGED CpuOwned
                /\ Len(gpu_queue') <= Len(gpu_queue)
                /\ \A s \in Slots : fence[s] => fence'[s]
                /\ \A i \in Images : img_state'[i] = "acquired" => img_state[i] = "acquired"
       ]_vars

\* queue_submit of a later frame has failed: the frame's commands are recorded, its
\* image is acquired, and nothing of it is on the queue.
C13_Witness ==
    /\ pc = "aborted"
    /\ last_err = "queue_submit"
    /\ frame_count >= 1
    /\ cmd_buf[frame_index] # <<>>
    /\ img_state[image_ind] = "acquired"
    /\ \A k \in QueueIndices : gpu_queue[k].frame # frame_count

\* The state of a slot of the ring, read off the loop's position and the queue.
SlotState(s) ==
    IF s = frame_index /\ pc \in {"reset", "acquire"} THEN "Acquiring"
    ELSE IF s = frame_index /\ pc \in {"begin_command_buffer"} \cup RecordingPcs
         THEN "Recording"
    ELSE IF \E k \in QueueIndices : gpu_queue[k].slot = s THEN "Submitted"
    ELSE "Idle"

SlotCycle ==
    { <<"Idle", "Acquiring">>, <<"Acquiring", "Recording">>,
      <<"Recording", "Submitted">>, <<"Submitted", "Idle">> }

\* The order of the CPU steps of one frame; end_render_pass is the step from "draw"
\* to "end_command_buffer".
StepOrder ==
    { <<"wait", "reset">>, <<"reset", "acquire">>, <<"acquire", "begin_command_buffer">>,
      <<"begin_command_buffer", "begin_render_pass">>,
      <<"begin_render_pass", "bind_pipeline">>, <<"bind_pipeline", "map_padded_memory">>,
      <<"map_padded_memory", "draw">>, <<"draw", "end_command_buffer">>,
      <<"end_command_buffer", "queue_submit">>, <<"queue_submit", "queue_present">>,
      <<"queue_present", "wait">> }

OpCount(cmds, op) == Cardinality({k \in 1 .. Len(cmds) : cmds[k].op = op})

\* C14: a slot moves only along Idle, Acquiring, Recording, Submitted, Idle, and the
\* CPU steps of a frame run in the order wait, reset, acquire, begin command buffer,
\* begin render pass, record, end render pass, end command buffer, submit, present,
\* none skipped or repeated (a step that fails leaves the loop for its abort); the
\* command buffer that is submitted opens with its one begin_render_pass and closes
\* with its one end_render_pass.
C14_StepOrderAndSlotCycle ==
    /\ [](pc = "queue_submit" =>
            LET cmds == cmd_buf[frame_index]
            IN  /\ cmds[1].op = "begin_render_pass"
                /\ cmds[Len(cmds)].op = "end_render_pass"
                /\ OpCount(cmds, "begin_render_pass") = 1
                /\ OpCount(cmds, "end_render_pass") = 1)
    /\ [][ pc' # "aborted" =>
              /\ pc' # pc => <<pc, pc'>> \in StepOrder
              /\ frame_count' # frame_count =>
                    (pc = "queue_present" /\ frame_count' = frame_count + 1)
              /\ \A s \in Slots :
                    LET before == SlotState(s)
                        after == SlotState(s)'
                    IN  after # before => <<before, after>> \in SlotCycle
       ]_vars

\* A slot is in its second round: it is being recorded again while the two other
\* slots are still submitted.
C14_Witness ==
    /\ frame_count >= NUM_FRAMES
    /\ SlotState(frame_index) = "Recording"
    /\ \A s \in Slots \ {frame_index} : SlotState(s) = "Submitted"

(***************************************************************************)
(* Properties of the semaphores of the frame loop.                         *)
(***************************************************************************)
\* C15: for every frame, the colour-attachment output of its command buffer starts
\* only after its acquire has signaled the slot's present semaphore, the presentation
\* of its image starts only after its command buffer's execution has completed and
\* signaled the slot's render semaphore, and the batch that completes signals the
\* fence of its own slot.
C15_SemaphoresOrderGpuWork ==
    /\ [](\A f \in SyFrames :
            /\ sy_hist[f].color_started => sy_hist[f].acquire_signaled
            /\ sy_hist[f].present_started => sy_hist[f].exec_done)
    /\ [](\A k \in 1 .. Len(sy_gpu) :
            /\ sy_gpu[k].fence = sy_gpu[k].frame % NUM_FRAMES
            /\ sy_gpu[k].info.wait_semaphores = {PresentSemaphore(sy_gpu[k].fence)}
            /\ sy_gpu[k].info.signal_semaphores = {RenderSemaphore(sy_gpu[k].fence)})
    /\ [][ \A f \in SyFrames :
              (sy_hist'[f].exec_done /\ ~sy_hist[f].exec_done) =>
                  /\ sy_fence'[f % NUM_FRAMES]
                  /\ RenderSemaphore(f % NUM_FRAMES) \in sy_sem'
       ]_vars

\* The image of a frame on a reused slot is being presented while an earlier frame's
\* present request is still waiting or has just been taken.
C15_Witness ==
    \E f \in SyFrames :
        /\ f >= NUM_FRAMES
        /\ sy_hist[f].present_started
        /\ sy_hist[f].exec_done
        /\ sy_hist[f].color_started

(***************************************************************************)
(* Properties of the frame loop: render targets and recorded commands.     *)
(***************************************************************************)
AcquiredImages == {i \in Images : img_state[i] = "acquired"}

\* The positions of a frame after its begin_render_pass was recorded and before its
\* image is presented.
RenderPassBegunPcs == {"bind_pipeline", "map_padded_memory", "draw", "end_command_buffer",
                       "queue_submit", "queue_present"}

\* C16: a begin_render_pass targets the framebuffer of the image that the acquire of
\* the same frame returned and that has not been presented since; the framebuffer is
\* the one of the acquired image index, whatever the slot, for image counts other
\* than NUM_FRAMES.
C16_RenderPassTargetsAcquiredImage ==
    /\ [](Cardinality(AcquiredImages) <= 1)
    /\ [](pc \in RenderPassBegunPcs =>
            LET begin == cmd_buf[frame_index][1]
            IN  /\ begin.op = "begin_render_pass"
                /\ begin.framebuffer = image_ind
                /\ AcquiredImages = {image_ind})
    /\ [][ /\ image_ind' # image_ind => (pc = "acquire" /\ pc' = "begin_command_buffer")
           /\ (pc = "begin_render_pass" /\ pc' = "bind_pipeline") =>
                 /\ cmd_buf'[frame_index] =
                        <<[op |-> "begin_render_pass", framebuffer |-> image_ind]>>
                 /\ img_state[image_ind] = "acquired"
       ]_vars

\* A render pass has begun on a framebuffer whose number is not the slot's, with
\* more images than slots.
C16_Witness ==
    /\ pc = "draw"
    /\ Cardinality(Images) > NUM_FRAMES
    /\ frame_count >= 1
    /\ cmd_buf[frame_index][1].framebuffer # frame_index
    /\ cmd_buf[frame_index][1].framebuffer = image_ind

(***************************************************************************)
(* Properties of the swapchain's current image index.                      *)
(***************************************************************************)
LastCall(log) == IF log = <<>> THEN "none" ELSE log[Len(log)]

\* C17: the current image index changes only in a successful acquire_next_image,
\* which stores the index the driver returned; queue_present, the getters and a
\* failed acquire leave it as it is, and queue_present presents the stored index,
\* the one of the most recent successful acquire.
C17_OnlyAcquireChangesImageIndex ==
    [][ /\ image_index' # image_index => LastCall(sw_log') = "acquire"
        /\ (sw_log' # sw_log /\ LastCall(sw_log') = "acquire") =>
              sw_owned' = sw_owned \cup {image_index'}
        /\ (sw_log' # sw_log /\ LastCall(sw_log') \in {"present", "get", "acquire_err"}) =>
              image_index' = image_index
        /\ (sw_log' # sw_log /\ LastCall(sw_log') = "present") =>
              sw_presented' = image_index
        /\ sw_presented' # sw_presented => LastCall(sw_log') = "present"
      ]_vars

\* A present after a successful acquire of an image other than 0, a failed acquire
\* and a getter: it presents the acquired index.
C17_Witness ==
    /\ Len(sw_log) >= 4
    /\ "acquire_err" \in {sw_log[k] : k \in 1 .. Len(sw_log)}
    /\ LastCall(sw_log) = "present"
    /\ sw_presented > 0
    /\ sw_presented = image_index

\* The vertex-buffer, index-buffer and draw commands of a command buffer, in order.
DrawCommandsOf(cmds) ==
    LET picked == SelectSeq(cmds, LAMBDA c : c.op \in {"bind_vertex_buffer",
                                                       "bind_index_buffer", "draw_indexed"})
    IN  [k \in 1 .. Len(picked) |->
            IF picked[k].op = "draw_indexed"
            THEN <<"draw_indexed", picked[k].index_count, picked[k].instance_count>>
            ELSE <<picked[k].op>>]

\* What a scene is to record: per model with a mesh, in model order, one
\* bind-vertex-buffer, one bind-index-buffer and one draw-indexed of the mesh's index
\* count and one instance; nothing for a model without a mesh.
RECURSIVE ExpectedDrawCommands(_)
ExpectedDrawCommands(ms) ==
    IF ms = <<>> THEN <<>>
    ELSE (IF Head(ms) = NoMesh THEN <<>>
          ELSE << <<"bind_vertex_buffer">>, <<"bind_index_buffer">>,
                  <<"draw_indexed", Head(ms), 1>> >>)
         \o ExpectedDrawCommands(Tail(ms))

\* C18: the command buffer recorded in a frame holds, for each model whose mesh is
\* found and in model order, exactly one bind-vertex-buffer, one bind-index-buffer
\* and one draw-indexed with the mesh's index count and instance count 1, and nothing
\* for a model whose mesh is missing.
C18_OneDrawPerModelWithMesh ==
    /\ pc = "draw" =>
          DrawCommandsOf(cmd_buf[frame_index]) =
              ExpectedDrawCommands(SubSeq(models, 1, model_i - 1))
    /\ pc \in {"end_command_buffer", "queue_submit"} =>
          DrawCommandsOf(cmd_buf[frame_index]) = ExpectedDrawCommands(models)
    /\ \A k \in QueueIndices : DrawCommandsOf(gpu_queue[k].cmds) = ExpectedDrawCommands(models)

\* A frame of a scene of two models is submitted, the first without a mesh and the
\* second a quad: the commands are those of the second model alone.
C18_Witness ==
    /\ models = <<NoMesh, 6>>
    /\ gpu_queue # <<>>
    /\ DrawCommandsOf(gpu_queue[Len(gpu_queue)].cmds) =
          << <<"bind_vertex_buffer">>, <<"bind_index_buffer">>, <<"draw_indexed", 6, 1>> >>

\* A frame of a scene of two different meshes is submitted: the triangle's commands
\* come before the quad's.
C18_TwoMeshesInOrder ==
    /\ models = <<3, 6>>
    /\ gpu_queue # <<>>
    /\ DrawCommandsOf(gpu_queue[Len(gpu_queue)].cmds) =
          << <<"bind_vertex_buffer">>, <<"bind_index_buffer">>, <<"draw_indexed", 3, 1>>,
             <<"bind_vertex_buffer">>, <<"bind_index_buffer">>, <<"draw_indexed", 6, 1>> >>

(***************************************************************************)
(* Properties of swapchain creation.                                       *)
(***************************************************************************)
Min(a, b) == IF a <= b THEN a ELSE b

\* C19: for surface capabilities (minSupported, maxSupported), where maxSupported is
\* 0 or at least minSupported as the surface reports them, the swapchain requests
\* minSupported + 1 images when maxSupported is 0 and min(minSupported + 1,
\* maxSupported) otherwise; the request is at least minSupported and, when
\* maxSupported > 0, at most maxSupported.
C19_RequestedImageCount ==
    LET mn == sw_caps.min_image_count
        mx == sw_caps.max_image_count
    IN  /\ mx = 0 => sw_requested = mn + 1
        /\ mx > 0 => sw_requested = Min(mn + 1, mx)
        /\ sw_requested >= mn
        /\ mx > 0 => sw_requested <= mx

\* A surface whose maximum equals its minimum: the request is clamped to it.
C19_Witness ==
    /\ sw_caps.max_image_count > 0
    /\ sw_caps.max_image_count = sw_caps.min_image_count
    /\ sw_requested = sw_caps.max_image_count
    /\ Len(sw_images) = sw_requested
    /\ sw_log # <<>>

(***************************************************************************)
(* Properties of the surface format and present mode.                      *)
(***************************************************************************)
ListedFormats == {sf_formats[k] : k \in 1 .. Len(sf_formats)}
ListedPresentModes == {sf_present_modes[k] : k \in 1 .. Len(sf_present_modes)}

\* C20: the swapchain is created with the surface format and the present mode chosen
\* during adapter selection, so it never asks for a format or a present mode the
\* surface does not list.
C20_SwapchainUsesChosenFormatAndMode ==
    sf_pc = "created" =>
        /\ SurfaceFormat(sf_create_info.image_format, sf_create_info.image_color_space)
              = sf_chosen_format
        /\ sf_create_info.present_mode = sf_chosen_mode
        /\ sf_chosen_format \in ListedFormats
        /\ sf_chosen_mode \in ListedPresentModes
        /\ SurfaceFormat(sf_create_info.image_format, sf_create_info.image_color_space)
              \in ListedFormats
        /\ sf_create_info.present_mode \in ListedPresentModes

(***************************************************************************)
(* Properties of the queue-family selection.                               *)
(***************************************************************************)
HasGraphicsFamily == \E k \in 1 .. Len(qf_families) : qf_families[k].graphics
HasPresentFamily == \E k \in 1 .. Len(qf_families) : qf_families[k].present

LowestIndex(S) == CHOOSE i \in S : \A j \in S : i <= j

\* C21: when every surface-support query is answered, the selection succeeds whenever
\* the adapter has a family with the graphics flag and a family that can present, and
\* returns the lowest family index of each class; it fails with
\* IncompatibleQueueFamilies when the graphics or the present-capable family is missing.
C21_SelectionNeedsGraphicsAndPresent ==
    (qf_pc \in {"returned_ok", "returned_err", "panicked"} /\ qf_query_err = NoQueryErr) =>
        IF HasGraphicsFamily /\ HasPresentFamily
        THEN /\ qf_pc = "returned_ok"
             /\ qf_result.graphics =
                    LowestIndex({i \in FamilyIndices(qf_families) : qf_families[i + 1].graphics})
             /\ qf_result.present =
                    LowestIndex({i \in FamilyIndices(qf_families) : qf_families[i + 1].present})
        ELSE /\ qf_pc = "returned_err"
             /\ qf_result.err = "IncompatibleQueueFamilies"

(***************************************************************************)
(* Properties of the logical device and its queues.                        *)
(***************************************************************************)
DistinctIndexValues == {dq_indices.compute, dq_indices.graphics, dq_indices.present}

CreateInfosBuilt == dq_pc \in {"device_created", "device_failed", "presented"}

\* C22: device_queue_create_infos returns exactly one queue-create entry per distinct
\* value among the compute, graphics and present indices (1 to 3 entries, no family
\* index twice), and each entry asks for one queue.
C22_OneEntryPerDistinctIndex ==
    CreateInfosBuilt =>
        /\ Len(dq_infos) = Cardinality(DistinctIndexValues)
        /\ Len(dq_infos) \in 1 .. 3
        /\ {dq_infos[k].queue_family_index : k \in 1 .. Len(dq_infos)} = DistinctIndexValues
        /\ \A i, j \in 1 .. Len(dq_infos) :
               i # j => dq_infos[i].queue_family_index # dq_infos[j].queue_family_index
        /\ \A k \in 1 .. Len(dq_infos) : dq_infos[k].queue_count = 1

\* Entries were built for indices of which two coincide and the third differs.
C22_Witness ==
    /\ CreateInfosBuilt
    /\ dq_indices.compute = dq_indices.graphics
    /\ dq_indices.present # dq_indices.graphics
    /\ Len(dq_infos) = 2

\* C29: the queue the frame loop passes to queue_present is the queue of the Present
\* operation class, a queue of a present-capable family, whatever the graphics and
\* present family indices are.
C29_PresentsOnPresentQueue ==
    dq_pc = "presented" =>
        /\ dq_present_queue = VQueues_get(dq_queues, "Present")
        /\ dq_families[FamilyOfQueue(dq_present_queue) + 1].present

\* With one family for graphics and present the queue passed is the Present queue.
C29_SameFamilyPresentsOnPresentQueue ==
    (dq_pc = "presented" /\ dq_indices.graphics = dq_indices.present) =>
        /\ dq_present_queue = VQueues_get(dq_queues, "Present")
        /\ dq_families[FamilyOfQueue(dq_present_queue) + 1].present

\* C30: every queue-create entry built for device creation names an existing queue
\* family; none carries the sentinel u32::MAX of an absent compute family.
C30_CreateInfosNameExistingFamilies ==
    CreateInfosBuilt =>
        \A k \in 1 .. Len(dq_infos) :
            /\ dq_infos[k].queue_family_index # U32_MAX
            /\ dq_infos[k].queue_family_index \in FamilyIndices(dq_families)

\* With a compute family on the adapter every entry names an existing family.
C30_WithComputeFamilyEntriesExist ==
    (CreateInfosBuilt /\ dq_indices.compute # U32_MAX) =>
        \A k \in 1 .. Len(dq_infos) :
            dq_infos[k].queue_family_index \in FamilyIndices(dq_families)

(***************************************************************************)
(* Properties of the instance builder.                                     *)
(***************************************************************************)
\* A valid nul-terminated C string: a single nul, at the end.
IsCString(bytes) ==
    /\ Len(bytes) > 0
    /\ bytes[Len(bytes)] = 0
    /\ \A k \in 1 .. (Len(bytes) - 1) : bytes[k] # 0

ValidInputs(strs) == SelectSeq(strs, IsCString)

\* C23: layers and extensions store exactly the inputs that are valid nul-terminated C
\* strings, in input order, and drop the others, so the stored count is the number of
\* valid inputs; each setter leaves the builder's other fields unchanged.
C23_SettersKeepValidCStrings ==
    [][ib_called' # ib_called =>
          /\ ib_last'.op = "layers" =>
                /\ ib_builder'.layers = ValidInputs(ib_last'.arg)
                /\ Len(ib_builder'.layers) =
                       Cardinality({k \in 1 .. Len(ib_last'.arg) : IsCString(ib_last'.arg[k])})
                /\ ib_builder' = [ib_builder EXCEPT !.layers = ib_builder'.layers]
          /\ ib_last'.op = "extensions" =>
                /\ ib_builder'.extensions = ValidInputs(ib_last'.arg)
                /\ Len(ib_builder'.extensions) =
                       Cardinality({k \in 1 .. Len(ib_last'.arg) : IsCString(ib_last'.arg[k])})
                /\ ib_builder' = [ib_builder EXCEPT !.extensions = ib_builder'.extensions]
      ]_vars

\* As in the test: two valid layers were stored, then three valid extensions, the third
\* differing from the second.
C23_Witness ==
    /\ ib_last.op = "extensions"
    /\ Len(ib_last.arg) = 3
    /\ Len(ib_builder.extensions) = 3
    /\ Len(ib_builder.layers) = 2
    /\ ib_builder.extensions[2] # ib_builder.extensions[3]

(***************************************************************************)
(* Properties of the fence handed to queue_submit.                         *)
(***************************************************************************)
PendingOnSlot(slot) == {k \in 1 .. Len(gpu_queue) : gpu_queue[k].slot = slot}

\* C24: whenever the frame loop is about to hand the slot's fence to queue_submit, the
\* fence is unsignaled and no earlier submission that will signal it is still pending,
\* from the first frame on.
C24_SubmitFenceUnsignaledAndIdle ==
    pc = "queue_submit" =>
        /\ ~fence[frame_index]
        /\ PendingOnSlot(frame_index) = {}

\* A reused slot has just been submitted with its fence, while the submission of
\* another slot is still pending.
C24_Witness ==
    /\ pc = "queue_present"
    /\ frame_count >= NUM_FRAMES
    /\ Cardinality(PendingOnSlot(frame_index)) = 1
    /\ ~fence[frame_index]
    /\ Len(gpu_queue) > 1

(***************************************************************************)
(* Progress of the frame loop.                                             *)
(***************************************************************************)
\* The steps of the closure that return once the call they make can return.
CpuProceeds ==
    \/ ResetFences
    \/ AcquireNextImage
    \/ BeginCommandBuffer
    \/ CmdBeginRenderPass
    \/ CmdBindPipeline
    \/ MapPaddedMemory
    \/ DrawModel
    \/ DrawSkipModel
    \/ CmdEndRenderPass
    \/ EndCommandBuffer
    \/ QueueSubmit
    \/ QueuePresent

\* main.rs:216-219: the fence wait returns within its timeout, with Ok or with Err; the
\* thread goes on whenever its call can return; the GPU finishes what is submitted; the
\* presentation engine gives presented images back.
FrameFairness ==
    /\ WF_vars(WaitForFences \/ WaitTimeout)
    /\ WF_vars(CpuProceeds)
    /\ WF_vars(GpuFinish)
    /\ WF_vars(PresentationRelease)

SpecFrameLive == Init /\ [][Next]_vars /\ FrameFairness

FrameStarted == pc = "wait" /\ frame_count < MaxFrames

\* C25, as stated: with a GPU that finishes every submission and a presentation engine
\* that makes images available, every frame that starts reaches its present call.
C25_EveryFrameReachesPresent ==
    FrameStarted ~> (pc = "queue_present")

\* C25, amended: every frame that starts reaches its present call unless the loop aborts
\* on a failed call or on a fence wait that timed out, and a fence wait finds its fence
\* unsignaled only while a submission of the slot is still pending, so never on the
\* first use of a slot.
C25_EveryFrameReachesPresentOrAborts ==
    /\ FrameStarted ~> (pc \in {"queue_present", "aborted"})
    /\ []((pc = "wait" /\ ~fence[frame_index]) => PendingOnSlot(frame_index) # {})

\* The fourth frame, the first to reuse a slot, has reached its present call.
C25_Witness ==
    /\ pc = "queue_present"
    /\ frame_count = NUM_FRAMES
    /\ last_err = "none"

(***************************************************************************)
(* Properties of the slots' semaphores across slot reuse.                  *)
(***************************************************************************)
\* A signal on the semaphore is outstanding: it is signaled, or about to be signaled by
\* the presentation engine for an acquire, and its wait has not consumed the signal.
PresentSemaphoreOutstanding(slot) ==
    \/ PresentSemaphore(slot) \in sy_sem
    \/ \E p \in sy_pending : p.semaphore = PresentSemaphore(slot)
    \/ \E k \in 1 .. Len(sy_gpu) :
           /\ ~sy_gpu[k].started
           /\ PresentSemaphore(slot) \in sy_gpu[k].info.wait_semaphores

\* The slot's render-semaphore is signaled and the present that waits on it has not
\* consumed the signal.
RenderSemaphoreOutstanding(slot) == RenderSemaphore(slot) \in sy_sem

\* A batch completes in this step and signals its signal semaphores.
BatchSignals == Len(sy_gpu') < Len(sy_gpu)

\* C26: no binary semaphore of a slot is signaled again while an earlier signal on it
\* has not been consumed by its wait: the present-semaphore is not handed to a new
\* acquire before the previous submit waited on it, and the render-semaphore is not
\* signaled by the slot's next submit before the previous present waited on it.
C26_SemaphoreNotResignaledBeforeWait ==
    /\ [](sy_pc = "acquire" => ~PresentSemaphoreOutstanding(sy_frame_index))
    /\ [][BatchSignals =>
              \A slot \in Slots :
                  RenderSemaphore(slot) \in Head(sy_gpu).info.signal_semaphores =>
                      ~RenderSemaphoreOutstanding(slot)]_vars

(***************************************************************************)
(* Properties of the attachments written by the frames in flight.          *)
(***************************************************************************)
\* C27: no two unfinished frames write the same attachment at the same time; in
\* particular the depth image, which every framebuffer shares, is never written by two
\* unfinished frames concurrently.
C27_NoConcurrentAttachmentWrites ==
    \A j, k \in 1 .. Len(dp_batches) :
        j # k => AttachmentsWritten(dp_batches[j]) \cap AttachmentsWritten(dp_batches[k]) = {}

\* Three frames are in flight and two of them run at once: one writes the shared depth
\* image while an earlier one writes its colour attachment.
C27_Witness ==
    /\ Len(dp_batches) = NUM_FRAMES
    /\ \E j, k \in 1 .. Len(dp_batches) :
        /\ j < k
        /\ dp_batches[j].framebuffer[2] = dp_batches[k].framebuffer[2]
        /\ AttachmentsWritten(dp_batches[k]) = {depth_image_view}
        /\ AttachmentsWritten(dp_batches[j]) = {dp_batches[j].framebuffer[1]}

(***************************************************************************)
(* Properties of the objects staged uploads leave alive.                   *)
(***************************************************************************)
\* C28: after k staged uploads have returned Ok (and none failed), exactly k buffers and
\* k memory allocations are alive, and no transient command pool or command buffer.
C28_UploadsReleaseTemporaries ==
    (lo_pc = "idle" /\ lo_err = 0) =>
        /\ lo_buffers = lo_ok
        /\ lo_memory = lo_ok
        /\ lo_pools = 0
        /\ lo_cmds = 0

\* What the code leaves: the staging buffer and its memory stay alive with the
\* destination's, two of each for every upload that returned Ok.
C28_TwoBuffersPerUpload ==
    (lo_pc = "idle" /\ lo_err = 0) => lo_buffers = 2 * lo_ok /\ lo_memory = 2 * lo_ok

====
